---------------------------- MODULE Spec2Model ----------------------------
(***************************************************************************)
(* Verification model of translate-intl: the translation validator         *)
(* (utils/validators.py), the batch engine (core/translator.py), the       *)
(* key-path codec (utils/json_handler.py) and the per-language service     *)
(* loop (services/translation_service.py).                                 *)
(*                                                                         *)
(* A text is a sequence of one-character strings.  A tree (a Python dict   *)
(* in insertion order) is a sequence of entries [k |-> key, n |-> node],   *)
(* a node being [kind |-> "leaf", val |-> text] or                         *)
(* [kind |-> "dict", val |-> tree].                                        *)
(***************************************************************************)
EXTENDS Integers, Sequences, FiniteSets, TLC

(***************************************************************************)
(* Characters and Python string primitives                                 *)
(***************************************************************************)
Lower == {"a","b","c","d","e","f","g","h","i","j","k","l","m",
          "n","o","p","q","r","s","t","u","v","w","x","y","z"}
Upper == {"A","B","C","D","E","F","G","H","I","J","K","L","M",
          "N","O","P","Q","R","S","T","U","V","W","X","Y","Z"}
Digit == {"0","1","2","3","4","5","6","7","8","9"}
\* str.strip() and \s: ASCII whitespace
Space == {" ", "\t", "\n", "\r"}
\* letters outside ASCII (the Cyrillic letters of the tests, written here by
\* their transliterated names): \w but not [a-zA-Z]
OtherLetter == {"ya", "zh"}
\* [a-zA-Z0-9]
Alnum == Lower \cup Upper \cup Digit
\* [a-z0-9]
LowDig == Lower \cup Digit
\* \w
Word == Alnum \cup {"_"} \cup OtherLetter

\* text[i:] with a 1-based first index
Tail_from(s, i) == SubSeq(s, i, Len(s))

\* lit occurs in s starting at index i
MatchLit(s, i, lit) ==
    /\ i >= 1
    /\ i + Len(lit) - 1 <= Len(s)
    /\ SubSeq(s, i, i + Len(lit) - 1) = lit

\* `lit in s` for strings
Contains(s, lit) == \E i \in 1..(Len(s) + 1) : MatchLit(s, i, lit)

\* index of the first occurrence of the character ch in s, 0 when absent
IndexOf(s, ch) ==
    IF \E i \in 1..Len(s) : s[i] = ch
    THEN CHOOSE i \in 1..Len(s) : s[i] = ch /\ \A j \in 1..(i - 1) : s[j] # ch
    ELSE 0

\* str.strip()
Strip(s) ==
    LET keep == {i \in 1..Len(s) : s[i] \notin Space}
    IN  IF keep = {} THEN <<>>
        ELSE LET lo == CHOOSE i \in keep : \A j \in keep : i <= j
                 hi == CHOOSE i \in keep : \A j \in keep : i >= j
             IN  SubSeq(s, lo, hi)

\* s.split(ch, 1): one or two parts
Split1(s, ch) ==
    LET i == IndexOf(s, ch)
    IN  IF i = 0 THEN <<s>>
        ELSE <<SubSeq(s, 1, i - 1), SubSeq(s, i + 1, Len(s))>>

\* s.split(ch): all parts
RECURSIVE SplitAll(_, _)
SplitAll(s, ch) ==
    LET i == IndexOf(s, ch)
    IN  IF i = 0 THEN <<s>>
        ELSE <<SubSeq(s, 1, i - 1)>> \o SplitAll(SubSeq(s, i + 1, Len(s)), ch)

\* the least member of a non-empty set of integers
Least(S) == CHOOSE i \in S : \A j \in S : i <= j

\* the maximal run of characters of class cls starting at index i: the index
\* after the run
RunEnd(s, i, cls) ==
    LET stop == {j \in i..Len(s) : s[j] \notin cls}
    IN  IF stop = {} THEN (IF i > Len(s) THEN i ELSE Len(s) + 1) ELSE Least(stop)

\* the maximal run of characters not in cls starting at index i
RunEndNot(s, i, cls) ==
    LET stop == {j \in i..Len(s) : s[j] \in cls}
    IN  IF stop = {} THEN (IF i > Len(s) THEN i ELSE Len(s) + 1) ELSE Least(stop)

\* re.findall for a pattern given by ends: ends[i] is the index after the
\* match that starts at i, or 0 when the pattern does not match at i.  Matches are taken
\* leftmost and do not overlap.
RECURSIVE FindAllFrom(_, _, _)
FindAllFrom(s, i, ends) ==
    LET hits == {j \in i..Len(s) : ends[j] # 0}
    IN  IF hits = {} THEN {}
        ELSE LET j == Least(hits)
             IN  {SubSeq(s, j, ends[j] - 1)} \cup FindAllFrom(s, ends[j], ends)

FindAll(s, ends) == FindAllFrom(s, 1, ends)

\* \b at index i (between s[i-1] and s[i])
WordBoundary(s, i) ==
    LET before == i > 1 /\ i - 1 <= Len(s) /\ s[i - 1] \in Word
        after  == i >= 1 /\ i <= Len(s) /\ s[i] \in Word
    IN  before # after

(***************************************************************************)
(* utils/validators.py                                                     *)
(***************************************************************************)
\* r"\{\{[^}]+\}\}" at index i
DoubleBraceEnd(s, i) ==
    IF MatchLit(s, i, <<"{", "{">>)
    THEN LET e == RunEndNot(s, i + 2, {"}"})
         IN  IF e > i + 2 /\ MatchLit(s, e, <<"}", "}">>) THEN e + 2 ELSE 0
    ELSE 0

\* the brace scan of extract_placeholders from index from on, with the depth
\* counter stack and the index start of the open depth-0 block; characters
\* other than braces change nothing and are skipped
RECURSIVE extract_placeholders(_), BraceScan(_, _, _, _)
BraceScan(text, from, stack, start) ==
    LET braces == {j \in from..Len(text) : text[j] \in {"{", "}"}}
        i == Least(braces)
    IN
    IF braces = {} THEN {}
    ELSE IF text[i] = "{"
    THEN BraceScan(text, i + 1, stack + 1, IF stack = 0 THEN i ELSE start)
    ELSE IF stack > 0
    THEN IF stack - 1 = 0
         THEN LET block == SubSeq(text, start, i)
                  inner == SubSeq(text, start + 1, i - 1)
                  rest  == BraceScan(text, i + 1, 0, start)
              IN  IF /\ MatchLit(block, 1, <<"{", "{">>)
                     /\ MatchLit(block, Len(block) - 1, <<"}", "}">>)
                  THEN rest
                  ELSE IF Contains(block, <<",">>)
                  THEN LET parts == Split1(inner, ",")
                           var_name == Strip(parts[1])
                       IN  {<<"{">> \o var_name \o <<"}">>}
                             \cup (IF Len(parts) > 1
                                   THEN extract_placeholders(parts[2])
                                   ELSE {})
                             \cup rest
                  ELSE LET content == Strip(inner)
                       IN  (IF content # <<>> /\ ~Contains(content, <<" ">>)
                            THEN {block} ELSE {})
                             \cup rest
         ELSE BraceScan(text, i + 1, stack - 1, start)
    ELSE BraceScan(text, i + 1, stack, start)

lit_plural == <<"p","l","u","r","a","l">>
lit_select == <<"s","e","l","e","c","t">>
lit_selectordinal == <<"s","e","l","e","c","t","o","r","d","i","n","a","l">>

extract_placeholders(text) ==
    FindAll(text, [i \in 1..Len(text) |-> DoubleBraceEnd(text, i)])
      \cup BraceScan(text, 1, 0, 0)
      \cup (IF /\ Contains(text, <<"#">>)
               /\ (Contains(text, lit_plural) \/ Contains(text, lit_selectordinal))
            THEN {<<"#">>} ELSE {})

\* r"</?[a-zA-Z0-9]+[^>]*>" at index i
TagEnd(s, i) ==
    IF s[i] # "<" THEN 0
    ELSE LET j == IF i + 1 <= Len(s) /\ s[i + 1] = "/" THEN i + 2 ELSE i + 1
             a == RunEnd(s, j, Alnum)
             e == RunEndNot(s, a, {">"})
         IN  IF a > j /\ e <= Len(s) THEN e + 1 ELSE 0

extract_tags(text) == FindAll(text, [i \in 1..Len(text) |-> TagEnd(text, i)])

\* the ends of one, two, ... groups (?:sep[a-z0-9]+) starting at index a
RECURSIVE GroupEnds(_, _, _)
GroupEnds(s, a, sep) ==
    IF a <= Len(s) /\ s[a] = sep /\ RunEnd(s, a + 1, LowDig) > a + 1
    THEN LET e == RunEnd(s, a + 1, LowDig) IN {e} \cup GroupEnds(s, e, sep)
    ELSE {}

\* the greedy match of head(?:sep[a-z0-9]+)+\b whose head ends before index a
GroupedEnd(s, a, sep) ==
    LET ok == {e \in GroupEnds(s, a, sep) : WordBoundary(s, e)}
    IN  IF ok = {} THEN 0 ELSE CHOOSE e \in ok : \A f \in ok : e >= f

\* r"\b[a-z][a-z0-9]*(?:_[a-z0-9]+)+\b" at index i
SnakeEnd(s, i) ==
    IF s[i] \in Lower /\ WordBoundary(s, i)
    THEN GroupedEnd(s, RunEnd(s, i + 1, LowDig), "_")
    ELSE 0

\* r"\b[a-z][a-z0-9]+[A-Z][a-zA-Z0-9]+\b" at index i
CamelEnd(s, i) ==
    IF s[i] \in Lower /\ WordBoundary(s, i)
    THEN LET a == RunEnd(s, i + 1, LowDig)
             e == RunEnd(s, a + 1, Alnum)
         IN  IF /\ a >= i + 2
                /\ a <= Len(s) /\ s[a] \in Upper
                /\ e >= a + 2
                /\ WordBoundary(s, e)
             THEN e ELSE 0
    ELSE 0

\* r"\b[a-z0-9]+(?:\.[a-z0-9]+)+\b" at index i
DottedEnd(s, i) ==
    IF s[i] \in LowDig /\ WordBoundary(s, i)
    THEN GroupedEnd(s, RunEnd(s, i, LowDig), ".")
    ELSE 0

extract_technical_terms(text) ==
    FindAll(text, [i \in 1..Len(text) |-> SnakeEnd(text, i)])
      \cup FindAll(text, [i \in 1..Len(text) |-> CamelEnd(text, i)])
      \cup FindAll(text, [i \in 1..Len(text) |-> DottedEnd(text, i)])

\* re.search(rf"\{{\s*\w+,\s*{keyword}\s*,", text)
KeywordSearch(text, keyword) ==
    \E i \in 1..Len(text) :
        /\ text[i] = "{"
        /\ LET j == RunEnd(text, i + 1, Space)
               k == RunEnd(text, j, Word)
               l == RunEnd(text, k + 1, Space)
               m == RunEnd(text, l + Len(keyword), Space)
           IN  /\ k > j
               /\ k <= Len(text) /\ text[k] = ","
               /\ MatchLit(text, l, keyword)
               /\ m <= Len(text) /\ text[m] = ","

extract_icu_keywords(text) ==
    {keyword \in {lit_plural, lit_select, lit_selectordinal} :
        KeywordSearch(text, keyword)}

\* one message of ValidationResult.errors or .warnings: its kind and the
\* tokens it lists
Msg(kind, items) == [kind |-> kind, items |-> items]

\* errors.append(...) when the condition holds
AppendIf(cond, msgs, m) == IF cond THEN Append(msgs, m) ELSE msgs

ValidationResult(is_valid, errors, warnings) ==
    [is_valid |-> is_valid, errors |-> errors, warnings |-> warnings]

\* lines 151-184: the four extractions, applied to one of the two texts
Tokens(text) ==
    [placeholders |-> extract_placeholders(text),
     tags |-> extract_tags(text),
     terms |-> extract_technical_terms(text),
     keywords |-> extract_icu_keywords(text)]

\* the comparisons without the one of lines 154-158
PlaceholderChecksSkipMissing(orig, trans) ==
    LET missing_tags == orig.tags \ trans.tags
        extra_tags == trans.tags \ orig.tags
        e2 == AppendIf(missing_tags # {}, <<>>, Msg("missing_tags", missing_tags))
        e3 == AppendIf(extra_tags # {}, e2, Msg("extra_tags", extra_tags))
    IN  ValidationResult(Len(e3) = 0, e3, <<>>)

\* the comparisons without the one of lines 169-171
PlaceholderChecksSkipExtraTags(orig, trans) ==
    LET missing == orig.placeholders \ trans.placeholders
        missing_tags == orig.tags \ trans.tags
        e1 == AppendIf(missing # {}, <<>>, Msg("missing_placeholders", missing))
        e2 == AppendIf(missing_tags # {}, e1, Msg("missing_tags", missing_tags))
    IN  ValidationResult(Len(e2) = 0, e2, <<>>)

\* the comparisons without the one of lines 186-188
PlaceholderChecksSkipKeywords(orig, trans) ==
    LET missing == orig.placeholders \ trans.placeholders
        missing_tags == orig.tags \ trans.tags
        extra_tags == trans.tags \ orig.tags
        missing_tech == orig.terms \ trans.terms
        e1 == AppendIf(missing # {}, <<>>, Msg("missing_placeholders", missing))
        e2 == AppendIf(missing_tags # {}, e1, Msg("missing_tags", missing_tags))
        e3 == AppendIf(extra_tags # {}, e2, Msg("extra_tags", extra_tags))
        w1 == AppendIf(missing_tech # {}, <<>>, Msg("technical_terms", missing_tech))
        w2 == AppendIf(orig.keywords # {} /\ trans.keywords = {}, w1,
                       Msg("icu_broken", {}))
    IN  ValidationResult(Len(e3) = 0, e3, w2)

\* lines 149-197: the comparisons made on the token sets of the two texts
PlaceholderChecks(orig, trans) ==
    LET missing == orig.placeholders \ trans.placeholders
        missing_tags == orig.tags \ trans.tags
        extra_tags == trans.tags \ orig.tags
        missing_tech == orig.terms \ trans.terms
        missing_keywords == orig.keywords \ trans.keywords
        e1 == AppendIf(missing # {}, <<>>, Msg("missing_placeholders", missing))
        e2 == AppendIf(missing_tags # {}, e1, Msg("missing_tags", missing_tags))
        e3 == AppendIf(extra_tags # {}, e2, Msg("extra_tags", extra_tags))
        e4 == AppendIf(missing_keywords # {}, e3,
                       Msg("icu_keywords_lost", missing_keywords))
        w1 == AppendIf(missing_tech # {}, <<>>, Msg("technical_terms", missing_tech))
        w2 == AppendIf(orig.keywords # {} /\ trans.keywords = {}, w1,
                       Msg("icu_broken", {}))
    IN  ValidationResult(Len(e4) = 0, e4, w2)

validate_placeholders(original, translated) ==
    PlaceholderChecks(Tokens(original), Tokens(translated))

\* the checks without lines 233-235
TranslationChecksKeepWarnings(result, original, translated, strict) ==
    LET e1 == AppendIf(Strip(translated) = <<>>, result.errors, Msg("empty", {}))
        w1 == AppendIf(Strip(original) = Strip(translated) /\ Len(original) > 3,
                       result.warnings, Msg("unchanged", {}))
    IN  ValidationResult(Len(e1) = 0, e1, w1)

\* the checks without lines 220-222
TranslationChecksSkipEmpty(result, original, translated, strict) ==
    LET w1 == AppendIf(Strip(original) = Strip(translated) /\ Len(original) > 3,
                       result.warnings, Msg("unchanged", {}))
        w2 == AppendIf(Len(translated) > Len(original) * 3 /\ Len(original) > 10,
                       w1, Msg("too_long", {}))
        errors == IF strict /\ w2 # <<>> THEN result.errors \o w2 ELSE result.errors
        warnings == IF strict /\ w2 # <<>> THEN <<>> ELSE w2
    IN  ValidationResult(Len(errors) = 0, errors, warnings)

\* the checks without lines 225-226
TranslationChecksSkipUnchanged(result, original, translated, strict) ==
    LET e1 == AppendIf(Strip(translated) = <<>>, result.errors, Msg("empty", {}))
        w2 == AppendIf(Len(translated) > Len(original) * 3 /\ Len(original) > 10,
                       result.warnings, Msg("too_long", {}))
        errors == IF strict /\ w2 # <<>> THEN e1 \o w2 ELSE e1
        warnings == IF strict /\ w2 # <<>> THEN <<>> ELSE w2
    IN  ValidationResult(Len(errors) = 0, errors, warnings)

\* lines 216-239: the checks made on top of the result of validate_placeholders
TranslationChecks(result, original, translated, strict) ==
    LET e1 == AppendIf(Strip(translated) = <<>>, result.errors, Msg("empty", {}))
        w1 == AppendIf(Strip(original) = Strip(translated) /\ Len(original) > 3,
                       result.warnings, Msg("unchanged", {}))
        w2 == AppendIf(Len(translated) > Len(original) * 3 /\ Len(original) > 10,
                       w1, Msg("too_long", {}))
        errors == IF strict /\ w2 # <<>> THEN e1 \o w2 ELSE e1
        warnings == IF strict /\ w2 # <<>> THEN <<>> ELSE w2
    IN  ValidationResult(Len(errors) = 0, errors, warnings)

validate_translation(original, translated, strict) ==
    TranslationChecks(validate_placeholders(original, translated),
                      original, translated, strict)

(***************************************************************************)
(* utils/json_handler.py: dicts in insertion order                         *)
(***************************************************************************)
Leaf(text) == [kind |-> "leaf", val |-> text]
Dict(tree) == [kind |-> "dict", val |-> tree]
IsDict(node) == node.kind = "dict"

\* key in d
HasKey(d, key) == \E i \in 1..Len(d) : d[i].k = key
\* d[key], for a key of d
GetKey(d, key) == d[CHOOSE i \in 1..Len(d) : d[i].k = key].n
\* d[key] = node: an existing key keeps its position, a new key goes last
PutKey(d, key, node) ==
    IF HasKey(d, key)
    THEN [i \in 1..Len(d) |-> IF d[i].k = key THEN [k |-> key, n |-> node] ELSE d[i]]
    ELSE Append(d, [k |-> key, n |-> node])
\* list(d.keys())
Keys(d) == [i \in 1..Len(d) |-> d[i].k]

\* dict(items): later items overwrite earlier ones in place
RECURSIVE DictOf(_, _)
DictOf(items, d) ==
    IF items = <<>> THEN d
    ELSE DictOf(Tail(items), PutKey(d, Head(items).k, Head(items).n))

is_nested_json(data) == \E i \in 1..Len(data) : IsDict(data[i].n)

\* str(value): a string is itself, a dict is its repr "{'k': 'v', ...}"
RECURSIVE PyStr(_), PyReprItems(_)
PyReprItems(d) ==
    IF d = <<>> THEN <<>>
    ELSE LET node == Head(d).n
             one == <<"'">> \o Head(d).k \o <<"'", ":", " ">>
                      \o (IF IsDict(node) THEN PyStr(node)
                          ELSE <<"'">> \o node.val \o <<"'">>)
         IN  IF Len(d) = 1 THEN one ELSE one \o <<",", " ">> \o PyReprItems(Tail(d))
PyStr(node) ==
    IF IsDict(node) THEN <<"{">> \o PyReprItems(node.val) \o <<"}">> ELSE node.val

\* the items list built by the loop of flatten_dict
RECURSIVE FlattenItems(_, _, _)
FlattenItems(data, parent_key, nested) ==
    IF data = <<>> THEN <<>>
    ELSE LET key == Head(data).k
             value == Head(data).n
             new_key == IF parent_key # <<>> THEN parent_key \o <<".">> \o key ELSE key
         IN  (IF nested /\ IsDict(value)
              THEN DictOf(FlattenItems(value.val, new_key, nested), <<>>)
              ELSE <<[k |-> new_key, n |-> Leaf(PyStr(value))]>>)
               \o FlattenItems(Tail(data), parent_key, nested)

flatten_dict(data, nested) == DictOf(FlattenItems(data, <<>>, nested), <<>>)

\* the outcome of a call that may raise
Returns(value) == [ok |-> TRUE, value |-> value]
Raises == [ok |-> FALSE, value |-> <<>>]
\* the outcome of a call that raises the exception exc
Raised(exc) == [ok |-> FALSE, value |-> <<>>, exc |-> exc]

\* the walk of set_nested_value along parts inside the copy: indexing or
\* assigning into a leaf raises TypeError
RECURSIVE SetPath(_, _, _)
SetPath(current, parts, value) ==
    IF Len(parts) = 1 THEN Returns(PutKey(current, parts[1], Leaf(value)))
    ELSE LET part == parts[1]
             made == IF HasKey(current, part) THEN current
                     ELSE PutKey(current, part, Dict(<<>>))
             child == GetKey(made, part)
         IN  IF ~IsDict(child) THEN Raised("TypeError")
             ELSE LET sub == SetPath(child.val, Tail(parts), value)
                  IN  IF sub.ok THEN Returns(PutKey(made, part, Dict(sub.value)))
                      ELSE sub

set_nested_value(data, flat_key, value, nested) ==
    IF ~nested THEN Returns(PutKey(data, flat_key, Leaf(value)))
    ELSE SetPath(data, SplitAll(flat_key, "."), value)

\* the call seen from the caller, the assignments made on the caller's tree
SetNestedValueInPlace(data, flat_key, value, nested) ==
    LET outcome == set_nested_value(data, flat_key, value, nested)
    IN  [outcome |-> outcome, data |-> IF outcome.ok THEN outcome.value ELSE data]
\* set_nested_value seen from the caller: what it returns or raises and the
\* caller's tree after the call; line 130 makes every assignment on a deep
\* copy
SetNestedValueCall(data, flat_key, value, nested) ==
    [outcome |-> set_nested_value(data, flat_key, value, nested), data |-> data]

\* the loop of unflatten_dict over the items of flat_data
RECURSIVE UnflattenItems(_, _)
UnflattenItems(flat_data, result) ==
    IF flat_data = <<>> THEN Returns(result)
    ELSE LET set == SetPath(result, SplitAll(Head(flat_data).k, "."),
                            Head(flat_data).n.val)
         IN  IF set.ok THEN UnflattenItems(Tail(flat_data), set.value) ELSE set

unflatten_dict(flat_data, nested) ==
    IF ~nested THEN Returns(flat_data) ELSE UnflattenItems(flat_data, <<>>)

\* TranslationFileService.set_value_by_flat_key as _translate_language calls
\* it, with the addressing mode passed through
set_value_by_flat_key(data, flat_key, value, nested) ==
    set_nested_value(data, flat_key, value, nested)

\* order_like_source(source, target, nested): source keys first in source
\* order, target-only keys after them in target order, values from the target
RECURSIVE order_like_source(_, _, _)
SourceFirst(source, target, nested) ==
    LET Pick(i) ==
          LET key == source[i].k
              sv == source[i].n
          IN  IF nested /\ IsDict(sv)
              THEN IF HasKey(target, key) /\ ~IsDict(GetKey(target, key))
                   THEN <<[k |-> key, n |-> GetKey(target, key)]>>
                   ELSE <<[k |-> key,
                           n |-> Dict(order_like_source(sv.val,
                                    IF HasKey(target, key) THEN GetKey(target, key).val
                                    ELSE <<>>, nested))]>>
              ELSE IF HasKey(target, key)
                   THEN <<[k |-> key, n |-> GetKey(target, key)]>>
                   ELSE <<>>
        RECURSIVE Walk(_)
        Walk(i) == IF i > Len(source) THEN <<>> ELSE Pick(i) \o Walk(i + 1)
    IN  Walk(1)
\* the target tree returned as it is
target_order_kept(source, target, nested) == target
\* the source tree returned as it is
source_values_kept(source, target, nested) == source
order_like_source(source, target, nested) ==
    LET first == SourceFirst(source, target, nested)
    IN  first \o SelectSeq(target, LAMBDA e : ~HasKey(first, e.k))

(***************************************************************************)
(* services/file_service.py: find_missing_keys                             *)
(***************************************************************************)
\* the characters of the keys in code point order, and str < str
KeyAlphabet == <<".", "a", "b", "c", "d", "e", "f", "g", "x", "y", "z">>
ord(ch) == CHOOSE i \in 1..Len(KeyAlphabet) : KeyAlphabet[i] = ch
StrLess(s, t) ==
    \E i \in 1..Len(t) :
        /\ i - 1 <= Len(s)
        /\ \A j \in 1..(i - 1) : s[j] = t[j]
        /\ i > Len(s) \/ ord(s[i]) < ord(t[i])

\* sorted(strings)
RECURSIVE sorted(_)
sorted(strings) ==
    IF strings = <<>> THEN <<>>
    ELSE LET first == CHOOSE i \in 1..Len(strings) :
                        /\ \A j \in 1..Len(strings) : ~StrLess(strings[j], strings[i])
                        /\ \A j \in 1..(i - 1) : strings[j] # strings[i]
         IN  <<strings[first]>>
               \o sorted(SubSeq(strings, 1, first - 1)
                           \o SubSeq(strings, first + 1, Len(strings)))

\* load_language_file on a file that is there or not
load_language_file(file) ==
    IF file.exists THEN Returns(file.data) ELSE Raised("FileNotFoundError")

MissingKeysReport(missing_keys, total_keys) ==
    [missing_keys |-> missing_keys, total_keys |-> total_keys]

\* lines 132-136 with the keys reported in the order of the loop
find_missing_keys_unsorted(source_file, target_file) ==
    LET source_data_flat == flatten_dict(source_file.data, TRUE)
        target_data_flat == flatten_dict(target_file.data, TRUE)
        Missing(key) ==
            \/ ~HasKey(target_data_flat, key)
            \/ GetKey(target_data_flat, key) = GetKey(source_data_flat, key)
    IN  Returns(MissingKeysReport(SelectSeq(Keys(source_data_flat), Missing),
                                  Len(source_data_flat)))

\* lines 120-142
find_missing_keys(source_file, target_file) ==
    IF ~load_language_file(source_file).ok THEN load_language_file(source_file)
    ELSE LET source_data_flat == flatten_dict(source_file.data, TRUE)
         IN  IF ~load_language_file(target_file).ok
             THEN Returns(MissingKeysReport(sorted(Keys(source_data_flat)),
                                            Len(sorted(Keys(source_data_flat)))))
             ELSE LET target_data_flat == flatten_dict(target_file.data, TRUE)
                      Missing(key) ==
                          \/ ~HasKey(target_data_flat, key)
                          \/ GetKey(target_data_flat, key) = GetKey(source_data_flat, key)
                  IN  Returns(MissingKeysReport(
                                  sorted(SelectSeq(Keys(source_data_flat), Missing)),
                                  Len(source_data_flat)))

(***************************************************************************)
(* core/translator.py: parsing a batch response                            *)
(***************************************************************************)
\* one line of the loop of _parse_batch_result: the translation the line
\* contributes, as a list of zero or one texts
ParseLine(raw) ==
    LET line == Strip(raw)
    IN  IF line # <<>> /\ (line[1] \in Digit \/ MatchLit(line, 1, <<"1">>))
        THEN LET parts == IF Contains(line, <<".">>) THEN Split1(line, ".")
                          ELSE Split1(line, ")")
             IN  IF Len(parts) = 2 THEN <<Strip(parts[2])>> ELSE <<line>>
        ELSE <<>>

RECURSIVE ParseLines(_)
ParseLines(lines) ==
    IF lines = <<>> THEN <<>> ELSE ParseLine(Head(lines)) \o ParseLines(Tail(lines))

\* the list translations before the final slice
ParsedAll(result) == ParseLines(SplitAll(Strip(result), "\n"))

_parse_batch_result(result, expected_count) ==
    LET translations == ParsedAll(result)
    IN  SubSeq(translations, 1,
               IF Len(translations) < expected_count THEN Len(translations)
               ELSE expected_count)

\* get_nested_value(data, flat_key, nested): the value or KeyError/TypeError
RECURSIVE GetPath(_, _)
GetPath(current, parts) ==
    IF ~HasKey(current, parts[1]) THEN Raised("KeyError")
    ELSE LET child == GetKey(current, parts[1])
         IN  IF Len(parts) = 1 THEN Returns(child)
             ELSE IF ~IsDict(child) THEN Raised("TypeError")
             ELSE GetPath(child.val, Tail(parts))

get_nested_value(data, flat_key, nested) ==
    IF ~nested
    THEN IF HasKey(data, flat_key) THEN Returns(GetKey(data, flat_key))
         ELSE Raised("KeyError")
    ELSE GetPath(data, SplitAll(flat_key, "."))

(***************************************************************************)
(* Bounds and input domains                                                *)
(***************************************************************************)
\* most leaves of a source tree
MaxKeys == 3
\* largest batch_size of a run
MaxBatchSize == 3
\* most numbered lines a batch response has beyond the number asked for
MaxExtraLines == 1
\* longest enumerated text handed to the validator
MaxTextLen == 3

\* "if input_len > 18000"
ContextThreshold == 18000
\* prompt sizes the tokenizer reports: at the threshold and just above it
InputLens == {ContextThreshold, ContextThreshold + 1}

\* source texts and what the model may answer for one unit
txt_hi_n == <<"H","i"," ","{","n","}">>
txt_ok == <<"O","k">>
txt_yo_n == <<"Y","o"," ","{","n","}">>
txt_yo == <<"Y","o">>
Cands == {txt_yo_n, txt_yo, txt_hi_n, <<>>}

KeyNames == <<"a", "b", "c", "d", "e", "f">>
KeyName(i) == <<KeyNames[i]>>
SrcText(i) == IF i % 2 = 1 THEN txt_hi_n ELSE txt_ok
FlatTree(n) == [i \in 1..n |-> [k |-> KeyName(i), n |-> Leaf(SrcText(i))]]
NestedTree(n) ==
    <<[k |-> <<"g">>, n |-> Dict(FlatTree(n - 1))],
      [k |-> KeyName(n), n |-> Leaf(SrcText(n))]>>
\* a nested source whose first key is a leaf
LeafFirstTree ==
    <<[k |-> <<"a">>, n |-> Leaf(txt_hi_n)],
      [k |-> <<"g">>, n |-> Dict(<<[k |-> <<"b">>, n |-> Leaf(txt_ok)]>>)]>>
SourceTrees ==
    {FlatTree(n) : n \in 0..MaxKeys} \cup {NestedTree(n) : n \in 2..MaxKeys}
      \cup {LeafFirstTree}

\* the target file before the run: absent, or one of two trees (old values
\* and a target-only key; a leaf where the nested source has an object)
Absent == [exists |-> FALSE, data |-> <<>>]
OnDisk(tree) == [exists |-> TRUE, data |-> tree]
TargetFiles ==
    {Absent,
     OnDisk(<<[k |-> <<"z">>, n |-> Leaf(<<"Z","z">>)],
              [k |-> <<"a">>, n |-> Leaf(<<"O","l","d">>)]>>),
     OnDisk(<<[k |-> <<"g">>, n |-> Leaf(<<"G","g">>)]>>)}

(***************************************************************************)
(* State                                                                   *)
(***************************************************************************)
VARIABLES
    \* validator harness: the arguments and the ValidationResult
    v_original, v_translated, v_strict, validation,
    \* the run: source tree, target file and its .bak on disk, batch_size
    source_data, disk, backup, batch_size, keys_to_translate,
    \* _translate_language: position, loop index i, target_data, counter
    svc, offset, target_data, translated_count,
    \* the call stack of translate_batch
    call_stack,
    \* history: one record per batch processed, one per unit written
    batches, writes,
    \* harness of the pure functions: the call made and what it gave
    fn_call, fn_result

vars == <<v_original, v_translated, v_strict, validation, source_data, disk, backup,
          batch_size, keys_to_translate, svc, offset, target_data,
          translated_count, call_stack, batches, writes, fn_call, fn_result>>

valVars == <<v_original, v_translated, v_strict, validation>>
fnVars == <<fn_call, fn_result>>
runVars == <<source_data, disk, backup, batch_size, keys_to_translate, svc,
             offset, target_data, translated_count, batches, writes>>

NoResult == [is_valid |-> FALSE, errors |-> <<>>, warnings |-> <<>>, none |-> TRUE]

\* _resolve_nested: the source's actual structure always wins
resolved_nested == is_nested_json(source_data)
flat_source == flatten_dict(source_data, resolved_nested)

(***************************************************************************)
(* core/translator.py: translate and translate_batch                       *)
(*                                                                         *)
(* A unit is [id, text]; id is its position in the list the service handed *)
(* to translate_batch and is history only.  A result is [of, by, val]: val *)
(* is the returned string, of the id of the unit it was produced for and   *)
(* by the call that produced it ("one" or "batch"); of and by are history. *)
(***************************************************************************)
Result(unit, by, val) == [of |-> unit.id, by |-> by, val |-> val]

\* translate(text, ...): the model returns some stripped string, or a step of
\* the call (chat template, generate, decode) raises
translate(text) == {Returns(c) : c \in Cands} \cup {Raises}

\* what the model may answer to a batch prompt of n entries: any number of
\* numbered lines up to n + MaxExtraLines, "1." or "1)" style, with or
\* without a line of preamble
DigitOf(i) == <<"1","2","3","4","5","6","7","8","9">>[i]
RECURSIVE NumberedLines(_, _, _)
NumberedLines(payloads, j, mark) ==
    IF j > Len(payloads) THEN <<>>
    ELSE (IF j > 1 THEN <<"\n">> ELSE <<>>)
           \o <<DigitOf(j), mark, " ">> \o payloads[j]
           \o NumberedLines(payloads, j + 1, mark)
Response(payloads, mark, preamble) ==
    (IF preamble THEN <<"O","k",":","\n">> ELSE <<>>) \o NumberedLines(payloads, 1, mark)
Responses(n) ==
    {Response(payloads, mark, preamble) :
        payloads \in UNION {[1..m -> Cands] : m \in 0..(n + MaxExtraLines)},
        mark \in {".", ")"},
        preamble \in BOOLEAN}

\* what translate_batch sees of an answer to n entries: the parsed list and
\* the length it had before the final slice
Replies ==
    UNION {{[n |-> n,
             translations |-> _parse_batch_result(result, n),
             raw |-> Len(ParsedAll(result))] : result \in Responses(n)} :
           n \in 2..MaxKeys}

\* One call of translate_batch(texts): pc is its position, left the kept
\* left_results, acc the list a per-unit loop has built, out the returned
\* list.  History only: via (the return statement taken), raw (the number of
\* numbered lines the answer had, NoRaw before an answer), failed and cause
\* (the except clause was entered, and by what), raised_by.
NoRaw == -1
NewFrame(texts) ==
    [texts |-> texts,
     pc |-> IF Len(texts) = 0 THEN "returned"
            ELSE IF Len(texts) = 1 THEN "one" ELSE "encode",
     input_len |-> 0, left |-> <<>>, acc |-> <<>>, out |-> <<>>,
     via |-> IF Len(texts) = 0 THEN "empty" ELSE "none",
     raw |-> NoRaw, failed |-> FALSE, cause |-> "none", raised_by |-> "none"]

Top == call_stack[Len(call_stack)]
SetTop(frame) == [call_stack EXCEPT ![Len(call_stack)] = frame]
Running(pcs) == call_stack # <<>> /\ Top.pc \in pcs

\* a midpoint that is 0 for two texts
MidRoundedDown(texts) == (Len(texts) - 1) \div 2
\* "mid = len(texts) // 2"
Mid(texts) == Len(texts) \div 2
\* the halves joined in the wrong order
ConcatSwapped(left_results, right_results) == right_results \o left_results
\* "return left_results + right_results"
Concat(left_results, right_results) == left_results \o right_results

\* a threshold one token too high
OverLimitLoose(input_len) == input_len > ContextThreshold + 1
\* "if input_len > 18000"
OverLimit(input_len) == input_len > ContextThreshold

\* "return <list>"
Return(frame, out, via) == [frame EXCEPT !.pc = "returned", !.out = out, !.via = via]
\* translate_batch without its except clause
FailUncaught(frame, cause) ==
    [frame EXCEPT !.pc = "raised", !.failed = TRUE, !.cause = cause]
\* an exception inside the try block: the except clause starts its own loop
Fail(frame, cause) ==
    [frame EXCEPT !.pc = "except", !.acc = <<>>, !.failed = TRUE, !.cause = cause]
\* a translate call that raised is skipped and the list built so far returned
RaiseSwallowed(frame) == [frame EXCEPT !.pc = "returned", !.out = frame.acc, !.via = "singles"]
\* an exception of a translate call leaves translate_batch
Raise(frame) == [frame EXCEPT !.pc = "raised", !.raised_by = "translate"]

\* line 238: a list of one text is translated by translate
TranslateOne ==
    /\ Running({"one"})
    /\ \E r \in translate(Top.texts[1].text) :
          call_stack' = SetTop(IF r.ok
                          THEN Return(Top, <<Result(Top.texts[1], "one", r.value)>>, "one")
                          ELSE Raise(Top))
    /\ UNCHANGED <<valVars, fnVars, runVars>>

\* lines 277-283: apply_chat_template raises
EncodeRaises ==
    /\ Running({"encode"})
    /\ call_stack' = SetTop(Fail(Top, "encode"))
    /\ UNCHANGED <<valVars, fnVars, runVars>>

\* lines 285-293: the prompt is over the threshold, the left half is called
EncodeSplit ==
    /\ Running({"encode"})
    /\ \E input_len \in InputLens :
          /\ OverLimit(input_len)
          /\ call_stack' = Append(SetTop([Top EXCEPT !.pc = "left", !.input_len = input_len]),
                             NewFrame(SubSeq(Top.texts, 1, Mid(Top.texts))))
    /\ UNCHANGED <<valVars, fnVars, runVars>>

\* lines 285-288: the prompt fits
EncodeFits ==
    /\ Running({"encode"})
    /\ \E input_len \in InputLens :
          /\ ~OverLimit(input_len)
          /\ call_stack' = SetTop([Top EXCEPT !.pc = "generate", !.input_len = input_len])
    /\ UNCHANGED <<valVars, fnVars, runVars>>

\* lines 299-308: generate or decode raises
GenerateRaises ==
    /\ Running({"generate"})
    /\ call_stack' = SetTop(Fail(Top, "generate"))
    /\ UNCHANGED <<valVars, fnVars, runVars>>

\* lines 299-320: the model answers; the answer is parsed and, when the
\* count is right, returned
GenerateReplies ==
    /\ Running({"generate"})
    /\ \E reply \in Replies :
          /\ reply.n = Len(Top.texts)
          /\ LET translations ==
                     [j \in 1..Len(reply.translations) |->
                         Result(Top.texts[j], "batch", reply.translations[j])]
                 seen == [Top EXCEPT !.raw = reply.raw]
             IN  call_stack' = SetTop(IF Len(translations) # Len(Top.texts)
                                 THEN [seen EXCEPT !.pc = "refill", !.acc = <<>>]
                                 ELSE Return(seen, translations, "direct"))
    /\ UNCHANGED <<valVars, fnVars, runVars>>

\* lines 315-318 and 328-330: the next translate call of a per-unit loop
\* returns
FallbackStep ==
    /\ Running({"refill", "except"})
    /\ LET unit == Top.texts[Len(Top.acc) + 1]
       IN  \E r \in translate(unit.text) :
              /\ r.ok
              /\ LET acc == Append(Top.acc, Result(unit, "one", r.value))
                 IN  call_stack' = SetTop(IF Len(acc) = Len(Top.texts)
                                     THEN Return([Top EXCEPT !.acc = acc], acc, "singles")
                                     ELSE [Top EXCEPT !.acc = acc])
    /\ UNCHANGED <<valVars, fnVars, runVars>>

\* a translate call of a per-unit loop raises: inside the try block (lines
\* 315-318) the except clause takes over, inside the except clause (lines
\* 328-330) the exception leaves translate_batch
FallbackRaises ==
    /\ Running({"refill", "except"})
    /\ Raises \in translate(Top.texts[Len(Top.acc) + 1].text)
    /\ call_stack' = SetTop(IF Top.pc = "refill" THEN Fail(Top, "refill")
                       ELSE Raise(Top))
    /\ UNCHANGED <<valVars, fnVars, runVars>>

Caller == call_stack[Len(call_stack) - 1]
Popped(frame) == Append(SubSeq(call_stack, 1, Len(call_stack) - 2), frame)

\* lines 291-296: the left half returned, the right half is called
LeftReturns ==
    /\ Len(call_stack) >= 2 /\ Top.pc = "returned" /\ Caller.pc = "left"
    /\ call_stack' = Append(Popped([Caller EXCEPT !.pc = "right", !.left = Top.out]),
                       NewFrame(SubSeq(Caller.texts, Mid(Caller.texts) + 1,
                                       Len(Caller.texts))))
    /\ UNCHANGED <<valVars, fnVars, runVars>>

\* lines 294-297: the right half returned
RightReturns ==
    /\ Len(call_stack) >= 2 /\ Top.pc = "returned" /\ Caller.pc = "right"
    /\ call_stack' = Popped(Return(Caller, Concat(Caller.left, Top.out), "split"))
    /\ UNCHANGED <<valVars, fnVars, runVars>>

\* a recursive call raised inside the try block: line 322
HalfRaises ==
    /\ Len(call_stack) >= 2 /\ Top.pc = "raised"
    /\ call_stack' = Popped(Fail(Caller, "half"))
    /\ UNCHANGED <<valVars, fnVars, runVars>>

(***************************************************************************)
(* services/translation_service.py: _translate_language                    *)
(***************************************************************************)
\* validate_translation(original, translation, strict=False) for the texts of
\* a run
Validated ==
    {[original |-> orig, translation |-> translation,
      result |-> validate_translation(orig, translation, FALSE)] :
        orig \in {txt_hi_n, txt_ok}, translation \in Cands}

\* the candidate stored whatever validation says
value_to_save_unchecked(orig, translation) == translation
\* lines 263-279: the string stored for a unit
value_to_save(orig, translation) ==
    LET checked == (CHOOSE v \in Validated :
                      v.original = orig /\ v.translation = translation).result
    IN  IF ~checked.is_valid /\ checked.errors # <<>> THEN orig ELSE translation

\* lines 261-285: the loop over zip(batch_keys, batch_texts, translations)
\* from its k-th round on; set_value_by_flat_key raising ends the loop with
\* the rounds before it done
RECURSIVE WriteLoop(_, _, _, _, _, _, _)
WriteLoop(data, count, log, k, batch_keys, batch_texts, translations) ==
    IF k > Len(batch_keys)
    THEN [data |-> data, count |-> count, log |-> log, raised |-> FALSE]
    ELSE LET saved == value_to_save(batch_texts[k], translations[k])
             set == set_value_by_flat_key(data, batch_keys[k], saved, resolved_nested)
         IN  IF ~set.ok
             THEN [data |-> data, count |-> count, log |-> log, raised |-> TRUE]
             ELSE WriteLoop(set.value, count + 1,
                            Append(log, [key |-> batch_keys[k],
                                         original |-> batch_texts[k],
                                         translation |-> translations[k],
                                         saved |-> saved]),
                            k + 1, batch_keys, batch_texts, translations)

\* every window starts at the first key
batch_keys_from_start ==
    SubSeq(keys_to_translate, 1,
           IF batch_size < Len(keys_to_translate) THEN batch_size
           ELSE Len(keys_to_translate))
\* "keys_to_translate[i : i + batch_size]"
batch_keys ==
    SubSeq(keys_to_translate, offset + 1,
           IF offset + batch_size < Len(keys_to_translate) THEN offset + batch_size
           ELSE Len(keys_to_translate))

\* lines 220-233: nothing to do, or the target file is loaded or created
LoadTarget ==
    /\ svc = "start"
    /\ IF keys_to_translate = <<>>
       THEN /\ svc' = "returned"
            /\ UNCHANGED <<disk, target_data>>
       ELSE /\ svc' = "loop"
            /\ IF disk.exists
               THEN /\ target_data' = disk.data
                    /\ UNCHANGED disk
               ELSE /\ target_data' = <<>>
                    /\ disk' = OnDisk(<<>>)
    /\ offset' = 0
    /\ translated_count' = 0
    /\ UNCHANGED <<valVars, fnVars, source_data, backup, batch_size, keys_to_translate,
                   batches, writes, call_stack>>

\* lines 241-252: the next window of keys is handed to translate_batch; a key
\* that flat_source lacks raises KeyError outside the try block
StartBatch ==
    /\ svc = "loop"
    /\ offset < Len(keys_to_translate)
    /\ IF \A j \in 1..Len(batch_keys) : HasKey(flat_source, batch_keys[j])
       THEN /\ svc' = "await"
            /\ call_stack' = <<NewFrame([j \in 1..Len(batch_keys) |->
                            [id |-> j, text |-> GetKey(flat_source, batch_keys[j]).val]])>>
       ELSE /\ svc' = "aborted"
            /\ UNCHANGED call_stack
    /\ UNCHANGED <<valVars, fnVars, source_data, disk, backup, batch_size, keys_to_translate,
                   offset, target_data, translated_count, batches, writes>>

\* one record of the history of batches
Batch(outcome, written) ==
    [first |-> offset, keys |-> batch_keys, outcome |-> outcome, written |-> written]

\* lines 254-287 and 289-294: translate_batch returned; the results are
\* checked, validated and written, the except clause catching what raises
BatchReturns ==
    /\ svc = "await"
    /\ Len(call_stack) = 1 /\ Top.pc = "returned"
    /\ LET batch_texts == [j \in 1..Len(Top.texts) |-> Top.texts[j].text]
           translations == [j \in 1..Len(Top.out) |-> Top.out[j].val]
       IN  IF Len(translations) # Len(batch_texts)
           THEN /\ batches' = Append(batches, Batch("error", 0))
                /\ UNCHANGED <<target_data, translated_count, writes>>
           ELSE LET done == WriteLoop(target_data, translated_count, writes, 1,
                                      batch_keys, batch_texts, translations)
                IN  /\ target_data' = done.data
                    /\ translated_count' = done.count
                    /\ writes' = done.log
                    /\ batches' = Append(batches,
                                    Batch(IF done.raised THEN "error" ELSE "ok",
                                          done.count - translated_count))
    /\ offset' = offset + batch_size
    /\ svc' = "loop"
    /\ call_stack' = <<>>
    /\ UNCHANGED <<valVars, fnVars, source_data, disk, backup, batch_size, keys_to_translate>>

\* _translate_language without the except clause of lines 289-294
BatchRaisesUncaught ==
    /\ svc = "await"
    /\ Len(call_stack) = 1 /\ Top.pc = "raised"
    /\ svc' = "aborted"
    /\ call_stack' = <<>>
    /\ UNCHANGED <<valVars, fnVars, source_data, disk, backup, batch_size, keys_to_translate,
                   offset, target_data, translated_count, batches, writes>>

\* lines 289-294: translate_batch raised; the except clause goes on with the
\* next batch
BatchRaises ==
    /\ svc = "await"
    /\ Len(call_stack) = 1 /\ Top.pc = "raised"
    /\ batches' = Append(batches, Batch("error", 0))
    /\ offset' = offset + batch_size
    /\ svc' = "loop"
    /\ call_stack' = <<>>
    /\ UNCHANGED <<valVars, fnVars, source_data, disk, backup, batch_size, keys_to_translate,
                   target_data, translated_count, writes>>

\* the tree is reordered and saved whether or not batches are left
FinishEarly ==
    /\ svc = "loop"
    /\ backup' = IF disk.exists THEN disk ELSE backup
    /\ disk' = OnDisk(order_like_source(source_data, target_data, resolved_nested))
    /\ svc' = "done"
    /\ UNCHANGED <<valVars, fnVars, source_data, batch_size, keys_to_translate, offset,
                   target_data, translated_count, batches, writes, call_stack>>

\* lines 296-301 and save_language_file: the tree is reordered and saved
\* over the old file, which is copied to .bak first
Finish ==
    /\ svc = "loop"
    /\ ~(offset < Len(keys_to_translate))
    /\ backup' = IF disk.exists THEN disk ELSE backup
    /\ disk' = OnDisk(order_like_source(source_data, target_data, resolved_nested))
    /\ svc' = "done"
    /\ UNCHANGED <<valVars, fnVars, source_data, batch_size, keys_to_translate, offset,
                   target_data, translated_count, batches, writes, call_stack>>

(***************************************************************************)
(* Specification of a run of translate_all for one target language         *)
(***************************************************************************)
ValIdle ==
    /\ v_original = <<>>
    /\ v_translated = <<>>
    /\ v_strict = FALSE
    /\ validation = NoResult

NoCall == [op |-> "none"]
FnIdle ==
    /\ fn_call = NoCall
    /\ fn_result = NoCall

Init ==
    /\ ValIdle
    /\ FnIdle
    /\ source_data \in SourceTrees
    /\ disk \in TargetFiles
    /\ backup = Absent
    /\ batch_size \in 1..MaxBatchSize
    /\ keys_to_translate = Keys(flatten_dict(source_data, is_nested_json(source_data)))
    /\ svc = "start"
    /\ offset = 0
    /\ target_data = <<>>
    /\ translated_count = 0
    /\ call_stack = <<>>
    /\ batches = <<>>
    /\ writes = <<>>

Next ==
    \/ LoadTarget
    \/ StartBatch
    \/ TranslateOne
    \/ EncodeRaises
    \/ EncodeSplit
    \/ EncodeFits
    \/ GenerateRaises
    \/ GenerateReplies
    \/ FallbackStep
    \/ FallbackRaises
    \/ LeftReturns
    \/ RightReturns
    \/ HalfRaises
    \/ BatchReturns
    \/ BatchRaises
    \/ Finish

Spec == Init /\ [][Next]_vars

\* the steps of translate_batch
EngineNext ==
    \/ TranslateOne
    \/ EncodeRaises
    \/ EncodeSplit
    \/ EncodeFits
    \/ GenerateRaises
    \/ GenerateReplies
    \/ FallbackStep
    \/ FallbackRaises
    \/ LeftReturns
    \/ RightReturns
    \/ HalfRaises

\* every model call returns or raises: a call of translate_batch that can
\* take a step takes one
FairSpec == Spec /\ WF_vars(EngineNext)

(***************************************************************************)
(* Properties of translate_batch                                           *)
(***************************************************************************)
Frames == {call_stack[k] : k \in 1..Len(call_stack)}

\* result i of a returned list was produced for input i
InOrder(frame) ==
    /\ Len(frame.out) = Len(frame.texts)
    /\ \A i \in 1..Len(frame.texts) : frame.out[i].of = frame.texts[i].id

\* C1: whenever translate_batch returns, on whichever path, it returns
\* exactly one result per input text and result i is the translation produced
\* for input i.
C1_OneResultPerInputInOrder ==
    \A frame \in Frames : frame.pc = "returned" => InOrder(frame)

\* a window of three texts was split, one half answered by a batch response
\* and the other by a single-unit call, and the joined list was returned
C1_Witness ==
    /\ Len(call_stack) = 1
    /\ Top.pc = "returned" /\ Top.via = "split" /\ Len(Top.texts) = 3
    /\ \E i, j \in 1..Len(Top.out) : Top.out[i].by = "one" /\ Top.out[j].by = "batch"

\* C2: every recursive call made after a split receives a non-empty list
\* strictly shorter than its caller's, and a call of translate_batch that was
\* started is left (by return or by an exception) when every model call
\* returns or raises.
C2_SplitsShrinkAndTerminate ==
    /\ [](\A k \in 2..Len(call_stack) :
             /\ 1 <= Len(call_stack[k].texts)
             /\ Len(call_stack[k].texts) < Len(call_stack[k - 1].texts))
    /\ ((svc = "await") ~> (Len(call_stack) = 1 /\ Top.pc \in {"returned", "raised"}))

\* the estimate was over the threshold at two levels: a half of a half runs
C2_Witness ==
    /\ Len(call_stack) = 3
    /\ call_stack[1].input_len > ContextThreshold
    /\ call_stack[2].input_len > ContextThreshold

\* C3: whenever the number of numbered translations in a batch response
\* differs from the number of units of the window, the batch result is
\* discarded and every unit is translated by its own single-unit call.
C3_MismatchDiscardsBatch ==
    \A frame \in Frames :
        (frame.pc = "returned" /\ frame.raw # NoRaw /\ frame.raw # Len(frame.texts))
            => /\ frame.via = "singles"
               /\ \A i \in 1..Len(frame.out) : frame.out[i].by = "one"

\* C4 as stated: a window whose batch call failed never makes translate_batch
\* fail.
C4_BatchFailureNeverRaises ==
    \A frame \in Frames :
        (frame.failed /\ frame.cause \in {"encode", "generate"})
            => frame.pc # "raised"

\* C4: after the batch call of a window failed, every unit of the window is
\* translated by its own single-unit call in input order; translate_batch
\* returns these results when all of the calls return, and fails only when
\* one of these single-unit calls raises.
C4_FailureFallsBackToSingles ==
    \A frame \in Frames :
        frame.failed =>
            /\ frame.pc \in {"except", "returned", "raised"}
            /\ Len(frame.acc) <= Len(frame.texts)
            /\ \A i \in 1..Len(frame.acc) :
                  frame.acc[i].of = frame.texts[i].id /\ frame.acc[i].by = "one"
            /\ frame.pc = "returned" =>
                  frame.via = "singles" /\ frame.out = frame.acc /\ InOrder(frame)
            /\ frame.pc = "raised" =>
                  frame.raised_by = "translate" /\ Len(frame.acc) < Len(frame.texts)

\* generation failed for a window of two or more units and the window's
\* results came from the single-unit calls
C4_Witness ==
    /\ Len(call_stack) = 1
    /\ Top.failed /\ Top.cause = "generate"
    /\ Top.pc = "returned" /\ Len(Top.texts) >= 2

(***************************************************************************)
(* Properties of _translate_language                                       *)
(***************************************************************************)
Writes == {writes[k] : k \in 1..Len(writes)}

\* C5: the value written for a unit is the candidate when non-strict
\* validation reports no error and the unit's source text when it reports
\* one; that value is what the target tree holds and what is saved.
C5_RejectedCandidateNeverWritten ==
    \A w \in Writes :
        /\ w.saved = IF validate_translation(w.original, w.translation, FALSE).errors = <<>>
                     THEN w.translation ELSE w.original
        /\ get_nested_value(target_data, w.key, resolved_nested) = Returns(Leaf(w.saved))
        /\ svc = "done" =>
              get_nested_value(disk.data, w.key, resolved_nested) = Returns(Leaf(w.saved))

\* a run ended in which one candidate lost its placeholder and was replaced
\* by the source text and another candidate was written as it came
C5_Witness ==
    /\ svc = "done"
    /\ \E w \in Writes : w.saved = w.original /\ w.translation # w.original
    /\ \E w \in Writes : w.saved = w.translation /\ w.translation # w.original

\* ceil(len(keys_to_translate) / batch_size)
Windows == (Len(keys_to_translate) + batch_size - 1) \div batch_size

\* C6: an exception inside a batch never aborts the run: the batches are
\* attempted one after the other whatever the outcome of the ones before, the
\* target file is saved at the end with what was written, and the translated
\* count never exceeds the number of requested keys.
C6_BatchFailureDoesNotAbort ==
    /\ svc # "aborted"
    /\ \A j \in 1..Len(batches) : batches[j].first = (j - 1) * batch_size
    /\ translated_count <= Len(keys_to_translate)
    /\ translated_count = Len(writes)
    /\ svc = "done" =>
          /\ Len(batches) = Windows
          /\ disk.exists
          /\ \A w \in Writes :
                get_nested_value(disk.data, w.key, resolved_nested) = Returns(Leaf(w.saved))

\* a run ended whose first batch raised and whose later batch was written
C6_Witness ==
    /\ svc = "done"
    /\ Len(batches) >= 2
    /\ batches[1].outcome = "error" /\ batches[1].written = 0
    /\ batches[Len(batches)].outcome = "ok"
    /\ translated_count < Len(keys_to_translate)

(***************************************************************************)
(* Specification of validate_translation on bounded inputs                 *)
(***************************************************************************)
BraceChars == {"{", "}", "a"}
TagChars == {"<", ">", "a"}
smp_double == <<"{","{","u","}","}"," ","x">>
smp_plural == <<"{","n",","," ","p","l","u","r","a","l",","," ","o","n","e"," ","{","#"," ","a","}"," ","o","t","h","e","r"," ","{","#"," ","b","}","}">>
smp_plural_nohash == <<"{","n",","," ","p","l","u","r","a","l",","," ","o","n","e"," ","{","a","}"," ","o","t","h","e","r"," ","{","b","}","}">>
smp_select == <<"{","k",","," ","s","e","l","e","c","t",","," ","m"," ","{","h","e","}","}">>
smp_tags == <<"<","b",">","x","<","/","b",">">>
smp_open_tag == <<"<","b",">","x">>
smp_snake == <<"s","e","t"," ","a","_","b"," ","n","o","w">>
smp_long == <<"H","i"," ","{","n","}"," ","a","n","d"," ","w","e","l","c","o","m","e">>
smp_select_lost == <<"{","k","}"," ","{","h","e","}">>
smp_blank == <<" ", " ">>
Samples == {txt_hi_n, txt_yo_n, txt_yo, smp_double, smp_plural, smp_plural_nohash, smp_select, smp_tags, smp_open_tag, smp_snake, smp_long, smp_select_lost, smp_blank}
ValTexts ==
    UNION {[1..n -> BraceChars] \cup [1..n -> TagChars] : n \in 0..MaxTextLen}
      \cup Samples

RunIdle ==
    /\ source_data = <<>>
    /\ disk = Absent
    /\ backup = Absent
    /\ batch_size = 1
    /\ keys_to_translate = <<>>
    /\ svc = "idle"
    /\ offset = 0
    /\ target_data = <<>>
    /\ translated_count = 0
    /\ call_stack = <<>>
    /\ batches = <<>>
    /\ writes = <<>>

InitVal ==
    /\ RunIdle
    /\ FnIdle
    /\ v_original \in ValTexts
    /\ v_translated \in ValTexts
    /\ v_strict \in BOOLEAN
    /\ validation = NoResult

Validate ==
    /\ validation = NoResult
    /\ validation' = validate_translation(v_original, v_translated, v_strict)
    /\ UNCHANGED <<v_original, v_translated, v_strict, runVars, call_stack, fnVars>>

NextVal == Validate

SpecVal == InitVal /\ [][NextVal]_vars

(***************************************************************************)
(* Properties of validate_translation                                      *)
(***************************************************************************)
Validation == validation # NoResult
Kinds(msgs) == {msgs[i].kind : i \in 1..Len(msgs)}

\* C7: validate_translation returns is_valid = true exactly when its errors
\* list is empty; in strict mode the errors are the non-strict errors followed
\* by the non-strict warnings and the returned warnings list is empty.
C7_ValidIffNoErrors ==
    Validation =>
        LET lenient == validate_translation(v_original, v_translated, FALSE)
        IN  /\ validation.is_valid <=> (validation.errors = <<>>)
            /\ v_strict =>
                  /\ validation.errors = lenient.errors \o lenient.warnings
                  /\ validation.warnings = <<>>
            /\ ~v_strict => validation = lenient

\* strict mode turned a warning about a lost technical term into the only
\* error
C7_Witness ==
    /\ Validation /\ v_strict
    /\ Kinds(validation.errors) = {"technical_terms"}
    /\ ~validation.is_valid

\* C8: a placeholder token of the original that the candidate's placeholder
\* set lacks makes the result invalid with an error that lists it, in strict
\* and in non-strict mode.
C8_MissingPlaceholderIsError ==
    LET missing == extract_placeholders(v_original) \ extract_placeholders(v_translated)
    IN  (Validation /\ missing # {}) =>
            /\ ~validation.is_valid
            /\ \E i \in 1..Len(validation.errors) :
                  validation.errors[i] = Msg("missing_placeholders", missing)

\* the candidate kept the ICU variable and lost the plural "#", non-strict
C8_Witness ==
    /\ Validation /\ ~v_strict
    /\ extract_placeholders(v_original) \ extract_placeholders(v_translated) = {<<"#">>}
    /\ ~validation.is_valid

\* C9: a placeholder token of the candidate that the original's placeholder
\* set lacks makes the result invalid with an error.
C9_ExtraPlaceholderIsError ==
    (Validation /\ extract_placeholders(v_translated) \ extract_placeholders(v_original) # {})
        => (~validation.is_valid /\ validation.errors # <<>>)

\* C10: tag sets that differ make the result invalid, with an error for the
\* tags the candidate lacks and an error for the tags it adds; equal tag sets
\* give no tag error.
C10_TagSetsMustMatch ==
    Validation =>
        LET orig_tags == extract_tags(v_original)
            trans_tags == extract_tags(v_translated)
        IN  /\ orig_tags # trans_tags => ~validation.is_valid
            /\ orig_tags \ trans_tags # {}
                  <=> \E i \in 1..Len(validation.errors) :
                         validation.errors[i] = Msg("missing_tags", orig_tags \ trans_tags)
            /\ trans_tags \ orig_tags # {}
                  <=> \E i \in 1..Len(validation.errors) :
                         validation.errors[i] = Msg("extra_tags", trans_tags \ orig_tags)
            /\ orig_tags = trans_tags
                  => Kinds(validation.errors) \cap {"missing_tags", "extra_tags"} = {}

\* the candidate has every tag of the original and one more: the only error
\* is the extra tag
C10_Witness ==
    /\ Validation
    /\ extract_tags(v_original) # {}
    /\ Kinds(validation.errors) = {"extra_tags"}
    /\ ~validation.is_valid

\* C11: an ICU keyword recognised in the original and not in the candidate
\* makes the result invalid with an "ICU keywords lost" error that lists it, in
\* strict and in non-strict mode.
C11_LostIcuKeywordIsError ==
    LET lost == extract_icu_keywords(v_original) \ extract_icu_keywords(v_translated)
    IN  (Validation /\ lost # {}) =>
            /\ ~validation.is_valid
            /\ \E i \in 1..Len(validation.errors) :
                  validation.errors[i] = Msg("icu_keywords_lost", lost)

\* the candidate kept the variable of a select message and dropped the select:
\* the lost keyword is the only error, non-strict
C11_Witness ==
    /\ Validation /\ ~v_strict
    /\ extract_icu_keywords(v_original) = {lit_select}
    /\ Kinds(validation.errors) = {"icu_keywords_lost"}
    /\ ~validation.is_valid

(***************************************************************************)
(* Empty candidates: validate_translation and _translate_language          *)
(***************************************************************************)
\* the empty string and strings of whitespace only
BlankTexts == {<<>>, <<" ">>, smp_blank, <<"\t", " ">>, <<"\n">>}

\* validate_translation on every original of the bounded set against every
\* blank candidate, strict and non-strict
BlankCandidateRejected ==
    \A orig \in ValTexts, translation \in BlankTexts, strict \in BOOLEAN :
        LET result == validate_translation(orig, translation, strict)
        IN  /\ ~result.is_valid
            /\ \E i \in 1..Len(result.errors) : result.errors[i] = Msg("empty", {})

\* C12: an empty or whitespace-only candidate is invalid with a "Translation
\* is empty" error for every original and both strictness settings, and for a
\* unit with such a candidate the service writes and saves the source text.
C12_EmptyCandidateReplacedBySource ==
    /\ BlankCandidateRejected
    /\ \A w \in Writes :
          Strip(w.translation) = <<>> =>
              /\ w.saved = w.original
              /\ get_nested_value(target_data, w.key, resolved_nested)
                    = Returns(Leaf(w.original))
              /\ svc = "done" =>
                    get_nested_value(disk.data, w.key, resolved_nested)
                      = Returns(Leaf(w.original))

\* a run ended in which the engine returned an empty candidate for a unit and
\* the saved file holds the unit's source text
C12_Witness ==
    /\ svc = "done"
    /\ \E w \in Writes :
          /\ w.translation = <<>> /\ w.original # <<>>
          /\ get_nested_value(disk.data, w.key, resolved_nested)
                = Returns(Leaf(w.original))

(***************************************************************************)
(* Warnings of validate_translation                                        *)
(***************************************************************************)
\* C13: a candidate whose only findings are warnings (a technical term of the
\* original absent, a candidate identical to an original of more than 3
\* characters, a candidate more than 3 times as long as an original of more
\* than 10 characters) is valid in non-strict mode with the warnings listed
\* and invalid in strict mode.
C13_WarningsFailOnlyWhenStrict ==
    Validation =>
        LET lenient == validate_translation(v_original, v_translated, FALSE)
            lost_terms == extract_technical_terms(v_original)
                            \ extract_technical_terms(v_translated)
        IN  /\ lost_terms # {} =>
                  \E i \in 1..Len(lenient.warnings) :
                      lenient.warnings[i] = Msg("technical_terms", lost_terms)
            /\ (v_translated = v_original /\ Len(v_original) > 3) =>
                  "unchanged" \in Kinds(lenient.warnings)
            /\ (Len(v_translated) > 3 * Len(v_original) /\ Len(v_original) > 10) =>
                  "too_long" \in Kinds(lenient.warnings)
            /\ (lenient.errors = <<>> /\ lenient.warnings # <<>>) =>
                  /\ lenient.is_valid
                  /\ ~v_strict => validation = lenient
                  /\ v_strict => (~validation.is_valid
                                    /\ validation.errors = lenient.warnings)

\* strict validation of a candidate identical to its original: the only
\* finding is the "unchanged" warning, and it makes the result invalid
C13_Witness ==
    /\ Validation /\ v_strict
    /\ v_translated = v_original /\ Len(v_original) > 3
    /\ validate_translation(v_original, v_translated, FALSE).is_valid
    /\ Kinds(validation.errors) = {"unchanged"}
    /\ ~validation.is_valid

(***************************************************************************)
(* Specification of the key-path and merge functions on bounded trees      *)
(***************************************************************************)
MaxTreeKeys == 3
Entry(key, node) == [k |-> <<key>>, n |-> node]
SrcLeaf(key) == Leaf(<<"s", key>>)
TgtLeaf(key) == Leaf(<<"T", key>>)
TreeKeys == {KeyNames[i] : i \in 1..MaxTreeKeys}
\* the orders in which a tree can hold some of the keys
KeyOrders ==
    {ks \in UNION {[1..n -> TreeKeys] : n \in 0..MaxTreeKeys} :
        \A i, j \in 1..Len(ks) : ks[i] = ks[j] => i = j}
\* the objects found under key "b" of a source and of a target tree
InnerSources ==
    {<<>>,
     <<Entry("c", SrcLeaf("c")), Entry("d", SrcLeaf("d"))>>,
     <<Entry("c", SrcLeaf("c")),
       Entry("d", Dict(<<Entry("e", SrcLeaf("e")), Entry("f", SrcLeaf("f"))>>))>>}
InnerTargets ==
    {<<>>,
     <<Entry("d", TgtLeaf("d")), Entry("x", TgtLeaf("x")), Entry("c", TgtLeaf("c"))>>,
     <<Entry("c", TgtLeaf("c"))>>,
     <<Entry("d", Dict(<<Entry("f", TgtLeaf("f")), Entry("y", TgtLeaf("y")),
                         Entry("e", TgtLeaf("e"))>>)),
       Entry("c", TgtLeaf("c"))>>}
\* a tree with the keys ks: a leaf under every key, or node under "b"
TreeWith(ks, node, leaves) ==
    [i \in 1..Len(ks) |->
        Entry(ks[i], IF ks[i] = "b" THEN node
                     ELSE IF leaves = "source" THEN SrcLeaf(ks[i]) ELSE TgtLeaf(ks[i]))]
MergeSources ==
    {TreeWith(ks, node, "source") :
        ks \in KeyOrders, node \in {SrcLeaf("b")} \cup {Dict(d) : d \in InnerSources}}
MergeTargets ==
    {TreeWith(ks, node, "target") :
        ks \in KeyOrders, node \in {TgtLeaf("b")} \cup {Dict(d) : d \in InnerTargets}}

\* trees whose keys hold no separator, and two whose keys hold one
DottedTrees ==
    {<<[k |-> <<"a", ".", "b">>, n |-> SrcLeaf("x")]>>,
     <<Entry("a", SrcLeaf("a")), [k |-> <<"a", ".", "b">>, n |-> SrcLeaf("x")]>>}
\* trees that hold the empty string as a key
EmptyKeyTrees ==
    {<<[k |-> <<>>, n |-> Dict(<<Entry("a", SrcLeaf("x"))>>)], Entry("a", SrcLeaf("a"))>>,
     <<Entry("b", Dict(<<[k |-> <<>>, n |-> SrcLeaf("x")]>>)), Entry("a", SrcLeaf("a"))>>}
\* flat keys: present and absent ones, of one to three segments
PathKeys ==
    {<<"a">>, <<"z">>, <<"b", ".", "c">>, <<"b", ".", "d", ".", "e">>,
     <<"b", ".", "c", ".", "z">>, <<"c", ".", "x", ".", "y">>, <<"b", ".", "z">>}
\* target files: absent, a translation of a source, a copy of a source, and
\* two that hold translated, copied and target-only values out of key order
MixedTargets ==
    {<<Entry("c", SrcLeaf("c")), Entry("z", TgtLeaf("z")), Entry("a", TgtLeaf("a"))>>,
     <<Entry("b", Dict(<<Entry("d", SrcLeaf("d")), Entry("c", TgtLeaf("c"))>>)),
       Entry("a", SrcLeaf("a"))>>}
SourceFiles == {Absent} \cup {OnDisk(tree) : tree \in MergeSources}
MissingTargetFiles ==
    {Absent} \cup {OnDisk(tree) : tree \in MergeTargets \cup MergeSources \cup MixedTargets}

InitCodec ==
    /\ RunIdle
    /\ ValIdle
    /\ \/ \E source \in MergeSources, target \in MergeTargets, nested \in BOOLEAN :
             fn_call = [op |-> "order_like_source", source |-> source,
                        target |-> target, nested |-> nested]
       \/ \E data \in MergeSources \cup MergeTargets \cup DottedTrees \cup EmptyKeyTrees,
             nested \in BOOLEAN :
             fn_call = [op |-> "flatten_dict", data |-> data, nested |-> nested]
       \/ \E data \in MergeTargets, flat_key \in PathKeys, nested \in BOOLEAN :
             fn_call = [op |-> "set_nested_value", data |-> data,
                        flat_key |-> flat_key, value |-> <<"v">>, nested |-> nested]
       \/ \E data \in MergeTargets \cup DottedTrees,
             flat_key \in PathKeys \cup {<<"a", ".", "b">>}, nested \in BOOLEAN :
             fn_call = [op |-> "get_nested_value", data |-> data,
                        flat_key |-> flat_key, nested |-> nested]
       \/ \E source_file \in SourceFiles, target_file \in MissingTargetFiles :
             fn_call = [op |-> "find_missing_keys", source_file |-> source_file,
                        target_file |-> target_file]
    /\ fn_result = NoCall

\* translation_service.py:297: the tree handed to save_language_file
OrderLikeSource ==
    /\ fn_call.op = "order_like_source" /\ fn_result = NoCall
    /\ fn_result' = [op |-> "order_like_source",
                     value |-> order_like_source(fn_call.source, fn_call.target,
                                                 fn_call.nested)]
    /\ UNCHANGED <<valVars, runVars, call_stack, fn_call>>

\* flatten_dict(data, nested=nested)
Flatten ==
    /\ fn_call.op = "flatten_dict" /\ fn_result = NoCall
    /\ fn_result' = [op |-> "flatten_dict",
                     value |-> flatten_dict(fn_call.data, fn_call.nested)]
    /\ UNCHANGED <<valVars, runVars, call_stack, fn_call>>

\* unflatten_dict(flat, nested=nested) on what flatten_dict returned
Unflatten ==
    /\ fn_result # NoCall /\ fn_result.op = "flatten_dict"
    /\ fn_result' = [op |-> "unflatten_dict", flat |-> fn_result.value,
                     outcome |-> unflatten_dict(fn_result.value, fn_call.nested)]
    /\ UNCHANGED <<valVars, runVars, call_stack, fn_call>>

\* set_nested_value(data, flat_key, value, nested=nested)
SetNestedValue ==
    /\ fn_call.op = "set_nested_value" /\ fn_result = NoCall
    /\ LET call == SetNestedValueCall(fn_call.data, fn_call.flat_key,
                                      fn_call.value, fn_call.nested)
       IN  fn_result' = [op |-> "set_nested_value", outcome |-> call.outcome,
                         data |-> call.data]
    /\ UNCHANGED <<valVars, runVars, call_stack, fn_call>>

\* get_nested_value(data, flat_key, nested=nested)
GetNestedValue ==
    /\ fn_call.op = "get_nested_value" /\ fn_result = NoCall
    /\ fn_result' = [op |-> "get_nested_value",
                     outcome |-> get_nested_value(fn_call.data, fn_call.flat_key,
                                                  fn_call.nested)]
    /\ UNCHANGED <<valVars, runVars, call_stack, fn_call>>

\* find_missing_keys(source_lang, target_lang) over the two files
FindMissingKeys ==
    /\ fn_call.op = "find_missing_keys" /\ fn_result = NoCall
    /\ fn_result' = [op |-> "find_missing_keys",
                     outcome |-> find_missing_keys(fn_call.source_file,
                                                   fn_call.target_file)]
    /\ UNCHANGED <<valVars, runVars, call_stack, fn_call>>

NextCodec ==
    \/ OrderLikeSource
    \/ FindMissingKeys
    \/ SetNestedValue
    \/ GetNestedValue
    \/ Flatten
    \/ Unflatten

SpecCodec == InitCodec /\ [][NextCodec]_vars

(***************************************************************************)
(* Properties of order_like_source                                         *)
(***************************************************************************)
Ordered == fn_call.op = "order_like_source" /\ fn_result # NoCall

\* the keys of result: those the source has, in the order of the source, then
\* the keys of the target that the source lacks, in the order of the target
SourceKeysFirst(source, target, result) ==
    LET InSource(key) == HasKey(source, key)
        TargetOnly(key) == ~HasKey(source, key)
        InResult(key) == HasKey(result, key)
        head == SelectSeq(Keys(result), InSource)
    IN  /\ Keys(result) = head \o SelectSeq(Keys(target), TargetOnly)
        /\ head = SelectSeq(Keys(source), InResult)

\* SourceKeysFirst at this level and at every level below it that the source
\* has as an object
RECURSIVE OrderedAtEveryLevel(_, _, _)
OrderedAtEveryLevel(source, target, result) ==
    /\ SourceKeysFirst(source, target, result)
    /\ \A i \in 1..Len(result) :
          LET key == result[i].k
          IN  (HasKey(source, key) /\ IsDict(GetKey(source, key))
                 /\ IsDict(result[i].n)) =>
                  OrderedAtEveryLevel(
                      GetKey(source, key).val,
                      IF HasKey(target, key) /\ IsDict(GetKey(target, key))
                      THEN GetKey(target, key).val ELSE <<>>,
                      result[i].n.val)

\* C14: in the result of order_like_source the keys present in the source
\* come first, in the source's order, followed by the keys only the target has,
\* in the target's order: at every nesting level in nested mode, at the top
\* level only (the values being the target's, untouched) in flat mode.
C14_SourceKeysFirstThenTargetOnly ==
    Ordered =>
        IF fn_call.nested
        THEN OrderedAtEveryLevel(fn_call.source, fn_call.target, fn_result.value)
        ELSE /\ SourceKeysFirst(fn_call.source, fn_call.target, fn_result.value)
             /\ \A i \in 1..Len(fn_result.value) :
                   fn_result.value[i].n = GetKey(fn_call.target, fn_result.value[i].k)

\* nested mode reordered the top level and the object under "b": the target
\* held both levels in another order, each with a key the source lacks
C14_Witness ==
    /\ Ordered /\ fn_call.nested
    /\ Keys(fn_call.source) = <<<<"a">>, <<"b">>>>
    /\ Keys(fn_call.target) = <<<<"b">>, <<"c">>, <<"a">>>>
    /\ Keys(fn_result.value) = <<<<"a">>, <<"b">>, <<"c">>>>
    /\ IsDict(fn_result.value[2].n)
    /\ Keys(fn_result.value[2].n.val) = <<<<"c">>, <<"d">>, <<"x">>>>
    /\ Keys(GetKey(fn_call.target, <<"b">>).val) = <<<<"d">>, <<"x">>, <<"c">>>>

\* the leaves of a tree, each with the sequence of keys that leads to it
RECURSIVE LeafPaths(_, _)
LeafPaths(tree, path) ==
    UNION {LET at == Append(path, tree[i].k)
           IN  IF IsDict(tree[i].n) THEN LeafPaths(tree[i].n.val, at)
               ELSE {<<at, tree[i].n.val>>} : i \in 1..Len(tree)}

\* C15: every leaf of the result of order_like_source is the leaf the target
\* has at the same path, in both modes; a key that only the source has
\* contributes no leaf.
C15_LeavesComeFromTarget ==
    Ordered =>
        LeafPaths(fn_result.value, <<>>) \subseteq LeafPaths(fn_call.target, <<>>)

\* nested mode, a source with three leaves over a target that holds another
\* value for one of them and lacks the others: the result has that one leaf
C15_Witness ==
    /\ Ordered /\ fn_call.nested
    /\ Len(fn_call.source) = 3 /\ ~is_nested_json(fn_call.source)
    /\ fn_call.target = <<Entry("c", TgtLeaf("c"))>>
    /\ fn_result.value = fn_call.target
    /\ GetKey(fn_call.source, <<"c">>) # GetKey(fn_call.target, <<"c">>)

(***************************************************************************)
(* Properties of flatten_dict, unflatten_dict, set_nested_value and        *)
(* get_nested_value                                                        *)
(***************************************************************************)
\* some key of the tree, at any level, holds the separator
RECURSIVE HasDottedKey(_)
HasDottedKey(tree) ==
    \E i \in 1..Len(tree) :
        \/ Contains(tree[i].k, <<".">>)
        \/ IsDict(tree[i].n) /\ HasDottedKey(tree[i].n.val)

\* C16: unflatten_dict(flatten_dict(T, m), m) is T for every tree of string
\* leaves and nested objects, empty ones included, in both modes, provided no
\* key holds the separator in nested mode.
C16_RoundTripIsIdentity ==
    (fn_result # NoCall /\ fn_result.op = "unflatten_dict"
       /\ (fn_call.nested => ~HasDottedKey(fn_call.data)))
        => fn_result.outcome = Returns(fn_call.data)

\* the nodes found by following the segments from the top of the tree: one
\* node when every segment exists, none otherwise
RECURSIVE Lookup(_, _)
Lookup(tree, parts) ==
    IF ~HasKey(tree, parts[1]) THEN {}
    ELSE LET child == GetKey(tree, parts[1])
         IN  IF Len(parts) = 1 THEN {child}
             ELSE IF IsDict(child) THEN Lookup(child.val, Tail(parts))
             ELSE {}

\* the segments of the key in the given mode
Segments(flat_key, nested) == IF nested THEN SplitAll(flat_key, ".") ELSE <<flat_key>>

\* a segment before the last one resolves to a leaf
LeafOnTheWay(tree, parts) ==
    \E n \in 1..(Len(parts) - 1) :
        \E node \in Lookup(tree, SubSeq(parts, 1, n)) : ~IsDict(node)

\* C17: set_nested_value leaves the tree it is given unchanged in both modes:
\* when it returns a new tree, which holds the value at the key with the
\* missing intermediate objects created, and when it raises, which it does
\* exactly when a segment before the last one is a leaf.
C17_SetLeavesInputUnchanged ==
    (fn_result # NoCall /\ fn_result.op = "set_nested_value") =>
        LET parts == Segments(fn_call.flat_key, fn_call.nested)
        IN  /\ fn_result.data = fn_call.data
            /\ fn_result.outcome.ok <=> ~LeafOnTheWay(fn_call.data, parts)
            /\ fn_result.outcome.ok =>
                  Lookup(fn_result.outcome.value, parts) = {Leaf(fn_call.value)}

\* nested mode, a key of three segments none of which the tree has: the
\* returned tree holds the value under two new objects and the tree given is
\* as it was
C17_Witness ==
    /\ fn_result # NoCall /\ fn_result.op = "set_nested_value"
    /\ fn_call.nested /\ fn_call.flat_key = <<"c", ".", "x", ".", "y">>
    /\ ~HasKey(fn_call.data, <<"c">>) /\ fn_call.data # <<>>
    /\ fn_result.outcome.ok
    /\ Lookup(fn_result.outcome.value, <<<<"c">>, <<"x">>, <<"y">>>>) = {Leaf(<<"v">>)}
    /\ fn_result.data = fn_call.data

\* C18: get_nested_value returns the value stored at the path when every
\* segment exists and raises KeyError when a segment is absent, also when a
\* segment before it resolves to a leaf string; in flat mode the key is one
\* segment, looked up as it is.
C18_GetReturnsOrKeyError ==
    (fn_result # NoCall /\ fn_result.op = "get_nested_value") =>
        LET found == Lookup(fn_call.data, Segments(fn_call.flat_key, fn_call.nested))
        IN  fn_result.outcome = IF found = {} THEN Raised("KeyError")
                                ELSE Returns(CHOOSE node \in found : TRUE)

(***************************************************************************)
(* Properties of find_missing_keys                                         *)
(***************************************************************************)
Reported ==
    /\ fn_result # NoCall /\ fn_result.op = "find_missing_keys"
    /\ fn_result.outcome.ok

MaxResponseLen == 5
ResponseChars == {"1", ".", ")", "a", " ", "\n"}
ResponseTexts == UNION {[1..n -> ResponseChars] : n \in 0..MaxResponseLen}

InitParse ==
    /\ RunIdle
    /\ ValIdle
    /\ \E result \in ResponseTexts, expected_count \in 1..MaxBatchSize :
          fn_call = [op |-> "_parse_batch_result", result |-> result,
                     expected_count |-> expected_count]
    /\ fn_result = NoCall

\* translator.py:311: self._parse_batch_result(decoded, len(texts))
ParseBatchResult ==
    /\ fn_call.op = "_parse_batch_result" /\ fn_result = NoCall
    /\ fn_result' = [op |-> "_parse_batch_result",
                     value |-> _parse_batch_result(fn_call.result,
                                                   fn_call.expected_count)]
    /\ UNCHANGED <<valVars, runVars, call_stack, fn_call>>

NextParse == ParseBatchResult

SpecParse == InitParse /\ [][NextParse]_vars

(***************************************************************************)
(* Properties of _parse_batch_result                                       *)
(***************************************************************************)
\* what a line contributes when only a leading numeral followed by "." or
\* ")" counts: the trimmed text after that marker, or nothing
AfterMarker(raw) ==
    LET line == Strip(raw)
        marker == RunEnd(line, 1, Digit)
    IN  IF marker > 1 /\ marker <= Len(line) /\ line[marker] \in {".", ")"}
        THEN <<Strip(SubSeq(line, marker + 1, Len(line)))>>
        ELSE <<>>

RECURSIVE AfterMarkers(_)
AfterMarkers(lines) ==
    IF lines = <<>> THEN <<>>
    ELSE AfterMarker(Head(lines)) \o AfterMarkers(Tail(lines))

\* C20: the parsed list holds, in line order, one translation for each line
\* that begins with a numeral followed by "." or ")", the trimmed text after
\* that first marker, and nothing for any other line, whatever "." or ")"
\* comes later in the line (up to the expected count).
C20_OneTranslationPerNumberedLine ==
    (fn_result # NoCall /\ fn_result.op = "_parse_batch_result") =>
        LET numbered == AfterMarkers(SplitAll(Strip(fn_call.result), "\n"))
        IN  fn_result.value =
                SubSeq(numbered, 1,
                       IF Len(numbered) < fn_call.expected_count THEN Len(numbered)
                       ELSE fn_call.expected_count)


(***************************************************************************)
(* Splitting of windows over the context threshold                         *)
(***************************************************************************)
\* the results a window holds are those of its first units, in order
ResultsOfFirst(frame, results) ==
    /\ Len(results) <= Len(frame.texts)
    /\ \A i \in 1..Len(results) : results[i].of = frame.texts[i].id

\* the call a split window is waiting for was given exactly its half
HalfCalled(k) ==
    LET frame == call_stack[k]
        mid == Len(frame.texts) \div 2
    IN  /\ frame.pc = "left" =>
              /\ k < Len(call_stack)
              /\ call_stack[k + 1].texts = SubSeq(frame.texts, 1, mid)
        /\ frame.pc = "right" =>
              /\ k < Len(call_stack)
              /\ call_stack[k + 1].texts = SubSeq(frame.texts, mid + 1, Len(frame.texts))
              /\ Len(frame.left) = mid
              /\ ResultsOfFirst(frame, frame.left)

\* C21 as stated: a window whose estimate is over the threshold always
\* returns the results of its left half followed by those of its right half.
C21_OversizeAlwaysReturnsHalves ==
    \A frame \in Frames :
        (frame.input_len > ContextThreshold /\ frame.pc = "returned")
            => /\ frame.via = "split"
               /\ SubSeq(frame.out, 1, Len(frame.left)) = frame.left

\* C21: a window of two or more units whose estimated prompt size is over
\* the threshold is never submitted to the model as one request: it is split
\* at floor(N/2), translate_batch is called on the left half and then on the
\* right half, and when both calls return the result is the left results
\* followed by the right results; when one of them raises, the units of the
\* window are translated by single-unit calls instead.
C21_OversizeWindowIsSplit ==
    \A k \in 1..Len(call_stack) :
        LET frame == call_stack[k]
        IN  frame.input_len > ContextThreshold =>
                /\ Len(frame.texts) >= 2
                /\ frame.raw = NoRaw
                /\ frame.pc \in {"left", "right", "except", "returned", "raised"}
                /\ HalfCalled(k)
                /\ frame.failed => frame.cause = "half"
                /\ (frame.pc = "returned" /\ ~frame.failed) =>
                      /\ frame.via = "split"
                      /\ Len(frame.left) = Len(frame.texts) \div 2
                      /\ SubSeq(frame.out, 1, Len(frame.left)) = frame.left
                      /\ InOrder(frame)
                /\ (frame.pc = "returned" /\ frame.failed) =>
                      /\ frame.via = "singles"
                      /\ \A i \in 1..Len(frame.out) : frame.out[i].by = "one"

\* a window of three units over the threshold returned the one result of its
\* left half followed by the two of its right half, which fitted
C21_Witness ==
    /\ Len(call_stack) = 1
    /\ Top.input_len > ContextThreshold /\ Len(Top.texts) = 3
    /\ Top.pc = "returned" /\ ~Top.failed /\ Top.via = "split"
    /\ Len(Top.left) = 1
    /\ Top.out[2].by = "batch" /\ Top.out[3].by = "batch"


(***************************************************************************)
(* A single-unit call that raises during a per-unit fallback               *)
(***************************************************************************)
\* C22 as stated: a window in whose count-mismatch fallback a single-unit
\* call raised never returns results, its failure reaching the service.
C22_FallbackFailureAlwaysPropagates ==
    \A frame \in Frames : frame.cause = "refill" => frame.pc # "returned"

\* the call the service made has raised
BatchCallRaised == svc = "await" /\ Len(call_stack) = 1 /\ Top.pc = "raised"

\* C22: a single-unit call that raises in the except clause's per-unit loop
\* of the call the service made leaves translate_batch, which never returns
\* a list lacking a result; the service's handler catches it, writes no unit
\* of the batch (target tree, counter and file stay as they were) and goes
\* on with the next batch.  Raised in a nested call it is caught by the
\* caller's except clause, and raised in the count-mismatch fallback by the
\* window's own, each retrying the units of its window one by one.
C22_FallbackFailureSkipsBatch ==
    /\ [](\A frame \in Frames :
             /\ frame.pc = "returned" => Len(frame.out) = Len(frame.texts)
             /\ frame.pc = "raised" =>
                   /\ frame.raised_by = "translate"
                   /\ Len(frame.texts) = 1 \/ (frame.failed /\ Len(frame.acc) < Len(frame.texts)))
    /\ [][BatchCallRaised =>
             /\ target_data' = target_data
             /\ writes' = writes
             /\ translated_count' = translated_count
             /\ disk' = disk
             /\ batches' = Append(batches, Batch("error", 0))
             /\ offset' = offset + batch_size
             /\ svc' = "loop"]_vars
    /\ [][(Len(call_stack) >= 2 /\ Top.pc = "raised") =>
             /\ Len(call_stack') = Len(call_stack) - 1
             /\ Top'.pc = "except" /\ Top'.cause = "half"]_vars
    /\ [][(Running({"refill"}) /\ Top'.failed) =>
             Top'.pc = "except" /\ Top'.cause = "refill"]_vars

\* generation failed for a batch of three units, the first single-unit call
\* of the except clause returned and the second raised, while the target tree
\* holds the values of the file that was loaded
C22_Witness ==
    /\ BatchCallRaised
    /\ Top.failed /\ Top.cause = "generate"
    /\ Len(Top.texts) = 3 /\ Len(Top.acc) = 1
    /\ Len(target_data) = 2


(***************************************************************************)
(* Order of the events of one language                                     *)
(***************************************************************************)
\* C23: for a language with a key to translate, all batches are processed
\* and written into target_data first, then target_data is reordered once by
\* order_like_source against the source and the reordered tree is saved:
\* before the last batch has been processed the only write to the target file
\* is the creation of an empty one, and the saved tree is the merge output.
C23_BatchesThenMergeThenSave ==
    /\ [](svc = "done" =>
             /\ Len(batches) = Windows
             /\ call_stack = <<>>
             /\ disk = OnDisk(order_like_source(source_data, target_data, resolved_nested)))
    /\ [](svc \in {"loop", "await"} => \A w \in Writes :
             get_nested_value(disk.data, w.key, resolved_nested) # Returns(Leaf(w.saved)))
    /\ [][disk' # disk =>
             \/ /\ svc = "start" /\ ~disk.exists /\ keys_to_translate # <<>>
                /\ disk' = OnDisk(<<>>)
             \/ /\ svc = "loop" /\ svc' = "done"
                /\ Len(batches) = Windows /\ keys_to_translate # <<>>
                /\ target_data' = target_data]_vars
    /\ [][svc = "done" => UNCHANGED vars]_vars

\* a run of two batches ended: the file was saved with the source's keys
\* first, in an order the in-memory tree did not have
C23_Witness ==
    /\ svc = "done"
    /\ Len(batches) = 2 /\ Len(writes) = 3
    /\ disk.data # target_data
    /\ Keys(disk.data) = <<<<"a">>, <<"b">>, <<"c">>, <<"z">>>>


(***************************************************************************)
(* The target file while a language is being translated                    *)
(***************************************************************************)
\* C24: stopping the run at any state before the language's batches have all
\* completed leaves the target file as it was before the run: no step other
\* than the final save creates, empties or changes the file.
C24_FileUntouchedUntilSaved ==
    [][svc' # "done" => disk' = disk]_vars


(***************************************************************************)
(* The flat keys of a tree                                                 *)
(***************************************************************************)
\* the leaves of a tree in depth-first order, keys in insertion order: the
\* path of keys to each leaf and its text
RECURSIVE DepthFirst(_, _)
DepthFirst(tree, path) ==
    IF tree = <<>> THEN <<>>
    ELSE LET at == Append(path, Head(tree).k)
         IN  (IF IsDict(Head(tree).n) THEN DepthFirst(Head(tree).n.val, at)
              ELSE <<[path |-> at, val |-> Head(tree).n.val]>>)
               \o DepthFirst(Tail(tree), path)

\* the segments of a path joined by the separator
RECURSIVE Joined(_)
Joined(path) ==
    IF Len(path) = 1 THEN path[1]
    ELSE path[1] \o <<".">> \o Joined(Tail(path))

Distinct(keys) == \A i, j \in 1..Len(keys) : keys[i] = keys[j] => i = j

\* C25: for a tree none of whose keys holds the separator, flatten_dict yields
\* one flat key per leaf and no flat key twice; in nested mode the flat keys
\* are the joined paths of the leaves in depth-first order, keys in insertion
\* order, each with its leaf's text; in flat mode they are the top-level keys
\* in their order, a nested value being stringified.
C25_OneFlatKeyPerLeafInOrder ==
    (fn_result # NoCall /\ fn_result.op = "flatten_dict" /\ ~HasDottedKey(fn_call.data)) =>
        LET flat == fn_result.value
            leaves == DepthFirst(fn_call.data, <<>>)
        IN  /\ Distinct(Keys(flat))
            /\ \A i \in 1..Len(flat) : ~IsDict(flat[i].n)
            /\ IF fn_call.nested
               THEN /\ Len(flat) = Len(leaves)
                    /\ \A i \in 1..Len(flat) :
                          /\ flat[i].k = Joined(leaves[i].path)
                          /\ flat[i].n.val = leaves[i].val
               ELSE /\ Keys(flat) = Keys(fn_call.data)
                    /\ \A i \in 1..Len(flat) : flat[i].n.val = PyStr(fn_call.data[i].n)


(***************************************************************************)
(* Specification of extract_placeholders on bounded texts                  *)
(***************************************************************************)
\* longest text of braces, commas, blanks and letters drawn exhaustively
MaxBlockLen == 5
BlockChars == {"{", "}", ",", " ", "\t", "a"}
BlockTexts == UNION {[1..n -> BlockChars] : n \in 0..MaxBlockLen}
\* what stands before the first comma of an ICU block, and after it
VarNames == {<<"a">>, <<" ", "a", "\t">>, <<"{", "a", "}">>, <<"a", " ", "a">>, <<>>}
Remainders == UNION {[1..n -> BlockChars] : n \in 0..(MaxBlockLen - 1)}
IcuBlock(var_name, remainder) == <<"{">> \o var_name \o <<",">> \o remainder \o <<"}">>

InitTokens ==
    /\ RunIdle
    /\ ValIdle
    /\ \/ \E text \in BlockTexts :
             fn_call = [op |-> "extract_placeholders", text |-> text]
       \/ \E var_name \in VarNames, remainder \in Remainders, stray \in BOOLEAN :
             fn_call = [op |-> "extract_placeholders",
                        text |-> (IF stray THEN <<"}", " ">> ELSE <<>>)
                                   \o IcuBlock(var_name, remainder)]
    /\ fn_result = NoCall

\* extract_placeholders(text)
ExtractPlaceholders ==
    /\ fn_call.op = "extract_placeholders" /\ fn_result = NoCall
    /\ fn_result' = [op |-> "extract_placeholders",
                     value |-> extract_placeholders(fn_call.text)]
    /\ UNCHANGED <<valVars, runVars, call_stack, fn_call>>

NextTokens == ExtractPlaceholders

SpecTokens == InitTokens /\ [][NextTokens]_vars

(***************************************************************************)
(* Properties of extract_placeholders                                      *)
(***************************************************************************)
\* the brace depth after the first i characters, never below 0
RECURSIVE DepthAfter(_, _)
DepthAfter(text, i) ==
    IF i = 0 THEN 0
    ELSE LET before == DepthAfter(text, i - 1)
         IN  IF text[i] = "{" THEN before + 1
             ELSE IF text[i] = "}" /\ before > 0 THEN before - 1
             ELSE before

\* where the blocks opened at depth 0 start, and where such a block is closed
\* (0 when it never is)
BlockStarts(text) == {b \in 1..Len(text) : text[b] = "{" /\ DepthAfter(text, b - 1) = 0}
BlockEnd(text, b) ==
    LET ends == {e \in (b + 1)..Len(text) : DepthAfter(text, e) = 0}
    IN  IF ends = {} THEN 0 ELSE Least(ends)
ClosedBlocks(text) ==
    {[from |-> b, to |-> BlockEnd(text, b)] : b \in {c \in BlockStarts(text) : BlockEnd(text, c) # 0}}
Inner(text, blk) == SubSeq(text, blk.from + 1, blk.to - 1)
\* the block was collected as one match of the double-brace pattern
CollectedAsDouble(block) == DoubleBraceEnd(block, 1) = Len(block) + 1
\* the block starts with two opening and ends with two closing braces
WrappedInDouble(block) ==
    MatchLit(block, 1, <<"{", "{">>) /\ MatchLit(block, Len(block) - 1, <<"}", "}">>)

Extracted == fn_result # NoCall /\ fn_result.op = "extract_placeholders"

\* C26: a block opened at depth 0 that holds no comma and is not a
\* double-brace block (it does not both start with "{{" and end with "}}")
\* is recorded as a placeholder exactly when its trimmed inner content is
\* non-empty and holds no whitespace character of any kind (stated for the
\* texts without a comma, where no other block can record the same token).
C26_SimpleBlockIffNoWhitespace ==
    (Extracted /\ ~Contains(fn_call.text, <<",">>)) =>
        \A blk \in ClosedBlocks(fn_call.text) :
            LET block == SubSeq(fn_call.text, blk.from, blk.to)
                content == Strip(Inner(fn_call.text, blk))
            IN  (~Contains(block, <<",">>) /\ ~WrappedInDouble(block)) =>
                    (block \in fn_result.value
                        <=> (content # <<>> /\ \A i \in 1..Len(content) : content[i] \notin Space))

\* the text without its i-th character
Without(text, i) == SubSeq(text, 1, i - 1) \o SubSeq(text, i + 1, Len(text))

\* C27: for a block opened at depth 0 whose content holds a comma and that
\* was not collected as a double-brace block, the
\* trimmed text before the first comma is recorded as "{var}" together with
\* every token extract_placeholders finds in the text after that comma; a
\* closing brace at depth 0 changes nothing, and a block that is never closed
\* adds nothing to what the scan finds in the text before it.
C27_IcuBlockVariableAndRemainder ==
    Extracted =>
        LET text == fn_call.text
        IN  /\ \A blk \in ClosedBlocks(text) :
                  LET inner == Inner(text, blk)
                      comma == IndexOf(inner, ",")
                  IN  (comma # 0 /\ ~CollectedAsDouble(SubSeq(text, blk.from, blk.to))) =>
                        /\ (<<"{">> \o Strip(SubSeq(inner, 1, comma - 1)) \o <<"}">>)
                              \in fn_result.value
                        /\ extract_placeholders(SubSeq(inner, comma + 1, Len(inner)))
                              \subseteq fn_result.value
            /\ \A i \in 1..Len(text) :
                  (text[i] = "}" /\ DepthAfter(text, i - 1) = 0) =>
                      BraceScan(text, 1, 0, 0) = BraceScan(Without(text, i), 1, 0, 0)
            /\ \A b \in BlockStarts(text) :
                  BlockEnd(text, b) = 0 =>
                      BraceScan(text, 1, 0, 0) = BraceScan(SubSeq(text, 1, b - 1), 1, 0, 0)


(***************************************************************************)
(* A batch whose validate-and-write loop raises                            *)
(***************************************************************************)
\* C28: the writes of a batch are all-or-nothing: a batch that ended in the
\* except clause has written none of its units to the target tree and has not
\* increased translated_count.
C28_BatchWritesAllOrNothing ==
    \A j \in 1..Len(batches) :
        batches[j].outcome = "error" =>
            /\ batches[j].written = 0
            /\ \A i \in 1..Len(batches[j].keys) :
                  \A w \in Writes : w.key # batches[j].keys[i]


(***************************************************************************)
(* The windows of keys of one language                                     *)
(***************************************************************************)
\* the keys of the windows processed so far, one window after the other
RECURSIVE KeysOfBatches(_)
KeysOfBatches(done) ==
    IF done = <<>> THEN <<>>
    ELSE KeysOfBatches(SubSeq(done, 1, Len(done) - 1)) \o done[Len(done)].keys

\* C29: the keys are cut into consecutive windows of at most batch_size keys
\* in the given order (batch_size >= 1): the windows processed so far make up
\* the first keys of the list, each key once, the window being translated
\* holds the keys that follow them, only one window is with translate_batch
\* at a time, and at the end of the run the windows make up the whole list.
C29_ConsecutiveWindowsOfKeys ==
    /\ \A j \in 1..Len(batches) :
          /\ 1 <= Len(batches[j].keys) /\ Len(batches[j].keys) <= batch_size
          /\ j < Len(batches) => Len(batches[j].keys) = batch_size
    /\ LET handed == KeysOfBatches(batches)
       IN  /\ Len(handed) <= Len(keys_to_translate)
           /\ handed = SubSeq(keys_to_translate, 1, Len(handed))
           /\ svc \in {"loop", "await"} =>
                 Len(handed) = (IF offset < Len(keys_to_translate) THEN offset
                                ELSE Len(keys_to_translate))
           /\ svc = "await" =>
                 /\ call_stack # <<>>
                 /\ Len(call_stack[1].texts) >= 1
                 /\ Len(call_stack[1].texts) <= batch_size
                 /\ \A i \in 1..Len(call_stack[1].texts) :
                       /\ Len(handed) + i <= Len(keys_to_translate)
                       /\ call_stack[1].texts[i].text =
                             GetKey(flat_source, keys_to_translate[Len(handed) + i]).val
                 /\ Len(handed) + Len(call_stack[1].texts) < Len(keys_to_translate) =>
                       Len(call_stack[1].texts) = batch_size
           /\ svc = "done" => handed = keys_to_translate
    /\ svc # "await" => call_stack = <<>>

\* three keys and batch_size 2: the run ended after a window of two keys and
\* a window of one
C29_Witness ==
    /\ svc = "done"
    /\ batch_size = 2 /\ Len(keys_to_translate) = 3
    /\ Len(batches) = 2
    /\ batches[1].keys = SubSeq(keys_to_translate, 1, 2)
    /\ batches[2].keys = <<keys_to_translate[3]>>


(***************************************************************************)
(* Specification of repeated runs of translate_missing for one language    *)
(***************************************************************************)
\* find_missing_keys(source_lang, target_lang, nested=is_nested): the report
\* of find_missing_keys over the trees flattened in the mode of the run
find_missing_keys_nested(source_file, target_file, nested) ==
    IF ~load_language_file(source_file).ok THEN load_language_file(source_file)
    ELSE LET source_data_flat == flatten_dict(source_file.data, nested)
         IN  IF ~load_language_file(target_file).ok
             THEN Returns(MissingKeysReport(sorted(Keys(source_data_flat)),
                                            Len(sorted(Keys(source_data_flat)))))
             ELSE LET target_data_flat == flatten_dict(target_file.data, nested)
                      Missing(key) ==
                          \/ ~HasKey(target_data_flat, key)
                          \/ GetKey(target_data_flat, key) = GetKey(source_data_flat, key)
                  IN  Returns(MissingKeysReport(
                                  sorted(SelectSeq(Keys(source_data_flat), Missing)),
                                  Len(source_data_flat)))

\* number of times translate_missing is run on the same files
MaxRuns == 2
\* sources of one and two keys and the nested one; target files: those of a
\* run of translate_all and a complete translation of the two-key source
MissingSources == {FlatTree(1), FlatTree(2), LeafFirstTree}
Translated ==
    OnDisk(<<[k |-> <<"a">>, n |-> Leaf(txt_yo_n)], [k |-> <<"b">>, n |-> Leaf(txt_yo)]>>)
MissingDisks == TargetFiles \cup {Translated}

\* the keys whose candidate the run that ended replaced by the source text
RejectedKeys == {w.key : w \in {x \in Writes : x.saved # x.translation}}

InitMissing ==
    /\ ValIdle
    /\ source_data \in MissingSources
    /\ disk \in MissingDisks
    /\ backup = Absent
    /\ batch_size \in 1..2
    /\ keys_to_translate = <<>>
    /\ svc = "idle"
    /\ offset = 0
    /\ target_data = <<>>
    /\ translated_count = 0
    /\ call_stack = <<>>
    /\ batches = <<>>
    /\ writes = <<>>
    /\ fn_call = [op |-> "translate_missing", run |-> 0, rejected_before |-> {}]
    /\ fn_result = NoCall

\* translate_missing handing every key of the source to _translate_language
TranslateMissingAllKeys ==
    /\ svc \in {"idle", "done", "complete"}
    /\ fn_call.run < MaxRuns
    /\ fn_call' = [op |-> "translate_missing", run |-> fn_call.run + 1,
                   rejected_before |-> RejectedKeys]
    /\ fn_result' = [op |-> "find_missing_keys",
                     outcome |-> find_missing_keys_nested(OnDisk(source_data), disk,
                                                          resolved_nested)]
    /\ keys_to_translate' = Keys(flat_source)
    /\ svc' = "start"
    /\ batches' = <<>>
    /\ writes' = <<>>
    /\ UNCHANGED <<valVars, source_data, disk, backup, batch_size, offset, target_data,
                   translated_count, call_stack>>

\* lines 168-196, for one target language: the report of find_missing_keys
\* decides between "No missing keys" and _translate_language on the missing
\* keys.  History: the number of the run and the keys rejected in the run
\* before it, the report, and the records of this run only.
TranslateMissing ==
    /\ svc \in {"idle", "done", "complete"}
    /\ fn_call.run < MaxRuns
    /\ fn_call' = [op |-> "translate_missing", run |-> fn_call.run + 1,
                   rejected_before |-> RejectedKeys]
    /\ LET report == find_missing_keys_nested(OnDisk(source_data), disk, resolved_nested)
       IN  /\ fn_result' = [op |-> "find_missing_keys", outcome |-> report]
           /\ keys_to_translate' = report.value.missing_keys
           /\ svc' = IF report.value.missing_keys = <<>> THEN "complete" ELSE "start"
    /\ batches' = <<>>
    /\ writes' = <<>>
    /\ UNCHANGED <<valVars, source_data, disk, backup, batch_size, offset, target_data,
                   translated_count, call_stack>>

NextMissing ==
    \/ TranslateMissing
    \/ LoadTarget
    \/ StartBatch
    \/ TranslateOne
    \/ EncodeRaises
    \/ EncodeSplit
    \/ EncodeFits
    \/ GenerateRaises
    \/ GenerateReplies
    \/ FallbackStep
    \/ FallbackRaises
    \/ LeftReturns
    \/ RightReturns
    \/ HalfRaises
    \/ BatchReturns
    \/ BatchRaises
    \/ Finish

SpecMissing == InitMissing /\ [][NextMissing]_vars


(***************************************************************************)
(* Properties of translate_missing                                         *)
(***************************************************************************)
Range(seq) == {seq[i] : i \in 1..Len(seq)}

\* what find_missing_keys reports for the files as they are now
MissingNow ==
    Range(find_missing_keys_nested(OnDisk(source_data), disk, resolved_nested)
              .value.missing_keys)

\* the report of the run that was started
ReportedMissing == fn_result.outcome.value.missing_keys

\* C30: a unit whose candidate was rejected is saved with its source text and
\* is reported missing by find_missing_keys on the saved file, so the next
\* run of translate_missing hands it to translate_batch again; a source key
\* is left out of the missing keys only when the target file holds for it a
\* value other than the source text; and for a language without missing keys
\* translate_missing translates nothing and writes no file.
C30_RejectedUnitsStayMissing ==
    /\ [](svc = "done" =>
             /\ KeysOfBatches(batches) = keys_to_translate
             /\ \A w \in Writes :
                   w.saved # w.translation =>
                       /\ w.saved = w.original
                       /\ get_nested_value(disk.data, w.key, resolved_nested)
                             = Returns(Leaf(w.original))
                       /\ w.key \in MissingNow)
    /\ [](fn_call.rejected_before \subseteq Range(keys_to_translate))
    /\ [](svc \in {"start", "complete"} =>
             /\ keys_to_translate = ReportedMissing
             /\ Range(keys_to_translate) = MissingNow
             /\ \A i \in 1..Len(flat_source) :
                   flat_source[i].k \notin Range(keys_to_translate) =>
                       LET held == get_nested_value(disk.data, flat_source[i].k,
                                                    resolved_nested)
                       IN  held.ok /\ held.value # flat_source[i].n)
    /\ []((fn_result # NoCall /\ ReportedMissing = <<>>) =>
             /\ svc = "complete"
             /\ call_stack = <<>> /\ batches = <<>> /\ writes = <<>>)
    /\ [][svc' = "complete" =>
             disk' = disk /\ backup' = backup /\ target_data' = target_data]_vars

\* the second run ended: the only key it was given is the one whose candidate
\* the first run rejected, and this time the candidate was stored
C30_Witness ==
    /\ fn_call.run = 2 /\ svc = "done"
    /\ fn_call.rejected_before = {<<"a">>}
    /\ keys_to_translate = <<<<"a">>>>
    /\ Len(source_data) = 2
    /\ \E w \in Writes :
          w.key = <<"a">> /\ w.saved = w.translation /\ w.saved # w.original

=============================================================================
